---- MODULE Spec2Model ----
(***************************************************************************)
(* A model of the cetools dice engine (cetools/core/dice.py), of the        *)
(* configuration store it consults (cetools/core/config.py) and of the      *)
(* comma-list roller (src/cetools/dice.py).                                 *)
(*                                                                          *)
(* Text is a sequence of one-character strings, so that trimming, regular   *)
(* expression matching, int() and str() are computed character by           *)
(* character as the Python code computes them.                              *)
(***************************************************************************)
EXTENDS Integers, Sequences, FiniteSets, TLC

VARIABLES
    configFile,      \* CONFIG_FILE on disk: [exists, data]
    DEFAULT_CONFIG,  \* the module-level dictionary of config.py (mutable)
    parsers,         \* DiceParser objects: id -> [seed, rng]
    trace,           \* per DiceParser, the calls made on it and what they returned
    calls,           \* the calls of the module-level roll functions, in order
    single,          \* one call on its own: [fn, input, done, out]
    characters,      \* Character objects: id -> [skills, equipment]
    files,           \* the file system: [dirs, data], data: path -> content
    heap             \* Equipment objects by identity: id -> fields

vars ==
    <<configFile, DEFAULT_CONFIG, parsers, trace, calls, single, characters, files,
      heap>>

(***************************************************************************)
(* Bounds                                                                   *)
(***************************************************************************)
MaxLen == 4      \* longest enumerated input text of parse_expression
MaxOps == 2      \* calls made on one DiceParser
MaxCalls == 3    \* calls of the module-level roll functions
MaxCount == 3    \* most dice asked for in an enumerated expression
MaxMod == 2      \* largest modifier, either sign, of an enumerated expression
MaxSeed == 3     \* seeds 0..MaxSeed
MaxValue == 120  \* integers 0..MaxValue converted to pseudo-hex

(***************************************************************************)
(* Bind(v, LAMBDA x : e) is e with x bound to the value of v: a local       *)
(* variable assigned once.                                                  *)
(***************************************************************************)
Bind(v, F(_)) == CHOOSE r \in {F(x) : x \in {v}} : TRUE

(***************************************************************************)
(* Characters, str.strip(), int(), str()                                    *)
(***************************************************************************)
Digits == {"0", "1", "2", "3", "4", "5", "6", "7", "8", "9"}

Whitespace == {" ", "\t", "\n"}

Signs == {"+", "-"}

DigitVal(c) ==
    CASE c = "0" -> 0 [] c = "1" -> 1 [] c = "2" -> 2 [] c = "3" -> 3
      [] c = "4" -> 4 [] c = "5" -> 5 [] c = "6" -> 6 [] c = "7" -> 7
      [] c = "8" -> 8 [] c = "9" -> 9

DigitChar(n) ==
    CASE n = 0 -> "0" [] n = 1 -> "1" [] n = 2 -> "2" [] n = 3 -> "3"
      [] n = 4 -> "4" [] n = 5 -> "5" [] n = 6 -> "6" [] n = 7 -> "7"
      [] n = 8 -> "8" [] n = 9 -> "9"

\* re.IGNORECASE on the letters the two patterns name
Lower(c) == CASE c = "D" -> "d" [] c = "U" -> "u" [] OTHER -> c

\* str.strip(): drop leading and trailing whitespace
Strip(s) ==
    LET keep == {i \in 1..Len(s) : s[i] \notin Whitespace}
    IN IF keep = {} THEN <<>>
       ELSE SubSeq(s, CHOOSE i \in keep : \A j \in keep : i <= j,
                      CHOOSE i \in keep : \A j \in keep : j <= i)

\* the position after the longest run of digits of s that starts at i (greedy \d*)
DigitsEnd(s, i) ==
    CHOOSE j \in i..(Len(s) + 1) :
        /\ \A k \in i..(j - 1) : s[k] \in Digits
        /\ (j = Len(s) + 1 \/ s[j] \notin Digits)

RECURSIVE DigitsToInt(_)
DigitsToInt(ds) ==
    IF ds = <<>> THEN 0
    ELSE 10 * DigitsToInt(SubSeq(ds, 1, Len(ds) - 1)) + DigitVal(ds[Len(ds)])

\* int(text) for text of the form \d+ or [+\-]\d+
ToInt(t) ==
    IF t[1] = "-" THEN 0 - DigitsToInt(Tail(t))
    ELSE IF t[1] = "+" THEN DigitsToInt(Tail(t))
    ELSE DigitsToInt(t)

RECURSIVE NatToStr(_)
NatToStr(n) ==
    IF n < 10 THEN <<DigitChar(n)>>
    ELSE Append(NatToStr(n \div 10), DigitChar(n % 10))

\* str(n)
IntToStr(n) == IF n < 0 THEN <<"-">> \o NatToStr(0 - n) ELSE NatToStr(n)

\* a Python string literal as text
Lit(str) ==
    CASE str = "Invalid dice expression: " ->
            <<"I","n","v","a","l","i","d"," ","d","i","c","e"," ",
              "e","x","p","r","e","s","s","i","o","n",":"," ">>
      [] str = "Dice count and size must be positive" ->
            <<"D","i","c","e"," ","c","o","u","n","t"," ","a","n","d"," ",
              "s","i","z","e"," ","m","u","s","t"," ","b","e"," ",
              "p","o","s","i","t","i","v","e">>
      [] str = "Cannot specify both advantage and disadvantage" ->
            <<"C","a","n","n","o","t"," ","s","p","e","c","i","f","y"," ",
              "b","o","t","h"," ","a","d","v","a","n","t","a","g","e"," ",
              "a","n","d"," ","d","i","s","a","d","v","a","n","t","a","g","e">>
      [] str = "Dice count must be >= 1" ->
            <<"D","i","c","e"," ","c","o","u","n","t"," ","m","u","s","t"," ",
              "b","e"," ",">","="," ","1">>
      [] str = "Dice sides must be >= 1" ->
            <<"D","i","c","e"," ","s","i","d","e","s"," ","m","u","s","t"," ",
              "b","e"," ",">","="," ","1">>
      [] str = "Dice count too large: " ->
            <<"D","i","c","e"," ","c","o","u","n","t"," ","t","o","o"," ",
              "l","a","r","g","e",":"," ">>
      [] str = "Expression must be a non-empty string" ->
            <<"E","x","p","r","e","s","s","i","o","n"," ","m","u","s","t"," ",
              "b","e"," ","a"," ","n","o","n","-","e","m","p","t","y"," ",
              "s","t","r","i","n","g">>
      [] str = "No dice expressions found" ->
            <<"N","o"," ","d","i","c","e"," ","e","x","p","r","e","s","s","i","o","n","s"," ",
              "f","o","u","n","d">>
      [] str = "Cannot convert negative values to pseudo-hex" ->
            <<"C","a","n","n","o","t"," ","c","o","n","v","e","r","t"," ","n","e","g",
              "a","t","i","v","e"," ","v","a","l","u","e","s"," ","t","o"," ","p","s",
              "e","u","d","o","-","h","e","x">>
      [] str = "Invalid pseudo-hex value: " ->
            <<"I","n","v","a","l","i","d"," ","p","s","e","u","d","o","-","h","e","x",
              " ","v","a","l","u","e",":"," ">>
      [] str = "Input should be less than or equal to 5" ->
            <<"I","n","p","u","t"," ","s","h","o","u","l","d"," ","b","e"," ","l","e",
              "s","s"," ","t","h","a","n"," ","o","r"," ","e","q","u","a","l"," ","t",
              "o"," ","5">>
      [] str = "Input should be greater than or equal to -3" ->
            <<"I","n","p","u","t"," ","s","h","o","u","l","d"," ","b","e"," ","g","r",
              "e","a","t","e","r"," ","t","h","a","n"," ","o","r"," ","e","q","u","a",
              "l"," ","t","o"," ","-","3">>

(***************************************************************************)
(* DiceParser.parse_expression                                              *)
(***************************************************************************)
\* STANDARD_PATTERN compiled without re.IGNORECASE
STANDARD_PATTERN_cased(s) ==
    LET n == Len(s)
        Match(i1, i2, i3) ==
            LET head == /\ i1 <= n
                        /\ s[i1] = "d"
                        /\ i2 > i1 + 1
                bare == i2 = n + 1
                modd == /\ i2 <= n
                        /\ s[i2] \in Signs
                        /\ i3 > i2 + 1
                        /\ i3 = n + 1
            IN IF head /\ (bare \/ modd)
               THEN [matched |-> TRUE,
                     count |-> SubSeq(s, 1, i1 - 1),
                     size |-> SubSeq(s, i1 + 1, i2 - 1),
                     modifier |-> IF bare THEN <<>> ELSE SubSeq(s, i2, n)]
               ELSE [matched |-> FALSE]
    IN Bind(DigitsEnd(s, 1), LAMBDA i1 :
       Bind(IF i1 <= n THEN DigitsEnd(s, i1 + 1) ELSE n + 1, LAMBDA i2 :
       Bind(IF i2 <= n THEN DigitsEnd(s, i2 + 1) ELSE n + 1, LAMBDA i3 :
            Match(i1, i2, i3))))

\* STANDARD_PATTERN  ^(?P<count>\d+)?d(?P<size>\d+)(?P<modifier>[+\-]\d+)?$
\* A group that did not take part in the match (Python's None) is <<>>.
STANDARD_PATTERN(s) ==
    LET n == Len(s)
        Match(i1, i2, i3) ==
            \* i1: the d; i2: after the size; i3: after the modifier's digits
            LET head == /\ i1 <= n
                        /\ Lower(s[i1]) = "d"
                        /\ i2 > i1 + 1
                bare == i2 = n + 1
                modd == /\ i2 <= n
                        /\ s[i2] \in Signs
                        /\ i3 > i2 + 1
                        /\ i3 = n + 1
            IN IF head /\ (bare \/ modd)
               THEN [matched |-> TRUE,
                     count |-> SubSeq(s, 1, i1 - 1),
                     size |-> SubSeq(s, i1 + 1, i2 - 1),
                     modifier |-> IF bare THEN <<>> ELSE SubSeq(s, i2, n)]
               ELSE [matched |-> FALSE]
    IN Bind(DigitsEnd(s, 1), LAMBDA i1 :
       Bind(IF i1 <= n THEN DigitsEnd(s, i1 + 1) ELSE n + 1, LAMBDA i2 :
       Bind(IF i2 <= n THEN DigitsEnd(s, i2 + 1) ELSE n + 1, LAMBDA i3 :
            Match(i1, i2, i3))))

\* D66_PATTERN  ^d66(?P<unordered>u)?(?P<modifier>[+\-]\d+)?$
D66_PATTERN(s) ==
    LET n == Len(s)
        hasU == n >= 4 /\ Lower(s[4]) = "u"
        i2 == IF hasU THEN 5 ELSE 4        \* after d66 or d66u
        head == /\ n >= 3
                /\ Lower(s[1]) = "d"
                /\ s[2] = "6"
                /\ s[3] = "6"
        bare == i2 = n + 1
        modd == /\ i2 <= n
                /\ s[i2] \in Signs
                /\ Bind(DigitsEnd(s, i2 + 1), LAMBDA i3 : i3 > i2 + 1 /\ i3 = n + 1)
    IN IF head /\ (bare \/ modd)
       THEN [matched |-> TRUE,
             unordered |-> IF hasU THEN <<s[4]>> ELSE <<>>,
             modifier |-> IF bare THEN <<>> ELSE SubSeq(s, i2, n)]
       ELSE [matched |-> FALSE]

\* the result of a call that raised
Raise(kind, message) == [kind |-> kind, message |-> message]

\* group or "default"
Or(group, default) == IF group = <<>> THEN default ELSE group

\* parse_expression trying STANDARD_PATTERN before D66_PATTERN
parse_expression_standard_first(text) ==
    Bind(Strip(text), LAMBDA expression :
    Bind(STANDARD_PATTERN(expression), LAMBDA std_match :
        IF std_match.matched
        THEN Bind(ToInt(Or(std_match.count, <<"1">>)), LAMBDA count :
             Bind(ToInt(std_match.size), LAMBDA size :
                IF count <= 0 \/ size <= 0
                THEN Raise("DiceExpressionError",
                           Lit("Dice count and size must be positive"))
                ELSE [kind |-> "ok",
                      dice_type |-> "STANDARD",
                      params |-> [count |-> count, size |-> size,
                                  modifier |-> ToInt(Or(std_match.modifier, <<"0">>))]]))
        ELSE Bind(D66_PATTERN(expression), LAMBDA d66_match :
            IF d66_match.matched
            THEN [kind |-> "ok",
                  dice_type |-> IF d66_match.unordered # <<>> THEN "D66_UNORDERED" ELSE "D66",
                  params |-> [modifier |-> ToInt(Or(d66_match.modifier, <<"0">>))]]
            ELSE Raise("DiceExpressionError",
                       Lit("Invalid dice expression: ") \o expression))))

\* parse_expression without the check of count and size
parse_expression_unchecked(text) ==
    Bind(Strip(text), LAMBDA expression :
    Bind(D66_PATTERN(expression), LAMBDA d66_match :
        IF d66_match.matched
        THEN [kind |-> "ok",
              dice_type |-> IF d66_match.unordered # <<>> THEN "D66_UNORDERED" ELSE "D66",
              params |-> [modifier |-> ToInt(Or(d66_match.modifier, <<"0">>))]]
        ELSE Bind(STANDARD_PATTERN(expression), LAMBDA std_match :
            IF std_match.matched
            THEN [kind |-> "ok",
                  dice_type |-> "STANDARD",
                  params |-> [count |-> ToInt(Or(std_match.count, <<"1">>)),
                              size |-> ToInt(std_match.size),
                              modifier |-> ToInt(Or(std_match.modifier, <<"0">>))]]
            ELSE Raise("DiceExpressionError",
                       Lit("Invalid dice expression: ") \o expression))))

parse_expression(text) ==
    Bind(Strip(text), LAMBDA expression :
    Bind(D66_PATTERN(expression), LAMBDA d66_match :
        IF d66_match.matched
        THEN [kind |-> "ok",
              dice_type |-> IF d66_match.unordered # <<>> THEN "D66_UNORDERED" ELSE "D66",
              params |-> [modifier |-> ToInt(Or(d66_match.modifier, <<"0">>))]]
        ELSE Bind(STANDARD_PATTERN(expression), LAMBDA std_match :
            IF std_match.matched
            THEN Bind(ToInt(Or(std_match.count, <<"1">>)), LAMBDA count :
                 Bind(ToInt(std_match.size), LAMBDA size :
                    IF count <= 0 \/ size <= 0
                    THEN Raise("DiceExpressionError",
                               Lit("Dice count and size must be positive"))
                    ELSE [kind |-> "ok",
                          dice_type |-> "STANDARD",
                          params |-> [count |-> count, size |-> size,
                                      modifier |-> ToInt(Or(std_match.modifier, <<"0">>))]]))
            ELSE Raise("DiceExpressionError",
                       Lit("Invalid dice expression: ") \o expression))))

(***************************************************************************)
(* cetools/core/config.py                                                   *)
(* A configuration is a function section -> (key -> value).                 *)
(***************************************************************************)
InitialDefaultConfig ==
    [general   |-> [export_format |-> "json", output_format |-> "text"],
     character |-> [default_template |-> "traveller"],
     dice      |-> [d66_unordered |-> FALSE]]

\* d[k] = v on a Python dict
DictSet(d, k, v) == [x \in (DOMAIN d) \cup {k} |-> IF x = k THEN v ELSE d[x]]

\* save_config: CONFIG_FILE now holds config
save_config(config) == [exists |-> TRUE, data |-> config]

\* load_config: the configuration read, and CONFIG_FILE afterwards.  With no
\* file the defaults are written out and DEFAULT_CONFIG.copy() is returned: a
\* shallow copy, whose section dictionaries are DEFAULT_CONFIG's own (shared).
load_config(file, dflt) ==
    IF ~file.exists
    THEN [config |-> dflt, shared |-> TRUE, file |-> save_config(dflt)]
    ELSE [config |-> file.data, shared |-> FALSE, file |-> file]

\* get_config_value: config.get(section, {}).get(key, default)
get_config_value(section, key, default, file, dflt) ==
    Bind(load_config(file, dflt), LAMBDA loaded :
        [value |-> IF section \in DOMAIN loaded.config
                      /\ key \in DOMAIN loaded.config[section]
                   THEN loaded.config[section][key]
                   ELSE default,
         file |-> loaded.file])

\* set_config_value: the new CONFIG_FILE and the new DEFAULT_CONFIG
set_config_value(section, key, value, file, dflt) ==
    Bind(load_config(file, dflt), LAMBDA loaded :
    Bind(IF section \in DOMAIN loaded.config THEN loaded.config
         ELSE DictSet(loaded.config, section, <<>>), LAMBDA withSection :
    Bind(DictSet(withSection, section, DictSet(withSection[section], key, value)),
         LAMBDA updated :
        [file |-> save_config(updated),
         dflt |-> IF loaded.shared /\ section \in DOMAIN loaded.config
                  THEN updated
                  ELSE dflt])))

(***************************************************************************)
(* random.Random: a deterministic generator.  The Mersenne Twister is       *)
(* abstracted to a full-period linear congruential generator on WordBits    *)
(* bits; randint keeps Python's rejection sampling over the top k bits.     *)
(* rng.draws counts the randint calls made on the source.                   *)
(***************************************************************************)
WordBits == 7

RngStates == 0..(2^WordBits - 1)

\* what the operating system may hand an unseeded source
OsEntropy == {3, 90}

\* a source that ignores the seed it is given
Random_unseeded(seed, entropy) == [state |-> entropy, draws |-> 0]

\* random.Random(seed).  An Optional[int] is <<>> for None and <<n>> for n;
\* with no seed the state comes from the operating system (entropy).
Random(seed, entropy) ==
    [state |-> IF seed = <<>> THEN entropy ELSE (37 * seed[1] + 11) % (2^WordBits),
     draws |-> 0]

\* n.bit_length()
BitLength(n) == CHOOSE k \in 0..WordBits : 2^k > n /\ (k = 0 \/ 2^(k - 1) <= n)

\* getrandbits(k): advance the generator, return its top k bits
getrandbits(state, k) ==
    Bind((5 * state + 3) % (2^WordBits), LAMBDA next :
        [value |-> next \div (2^(WordBits - k)), state |-> next])

\* _randbelow(n): k = n.bit_length(); r = getrandbits(k); while r >= n: retry
RECURSIVE randbelow(_, _)
randbelow(state, n) ==
    Bind(getrandbits(state, BitLength(n)), LAMBDA r :
        IF r.value < n THEN r ELSE randbelow(r.state, n))

\* rng.randint(1, size)
randint(rng, size) ==
    Bind(randbelow(rng.state, size), LAMBDA r :
        [value |-> 1 + r.value,
         rng |-> [state |-> r.state, draws |-> rng.draws + 1]])

(***************************************************************************)
(* DiceParser: roll_dice, roll_d66, apply_advantage, roll                   *)
(***************************************************************************)
DiceRoll(die_size, result) == [die_size |-> die_size, result |-> result]

\* [DiceRoll(size, randint(1, size)) for _ in range(count)], drawn in order;
\* the list is split in halves to keep the evaluation shallow for long lists
RECURSIVE DiceParser_roll_dice(_, _, _)
DiceParser_roll_dice(rng, count, size) ==
    IF count <= 0 THEN [rolls |-> <<>>, rng |-> rng]
    ELSE IF count = 1
    THEN Bind(randint(rng, size), LAMBDA r :
            [rolls |-> <<DiceRoll(size, r.value)>>, rng |-> r.rng])
    ELSE Bind(DiceParser_roll_dice(rng, count \div 2, size), LAMBDA a :
         Bind(DiceParser_roll_dice(a.rng, count - (count \div 2), size), LAMBDA b :
            [rolls |-> a.rolls \o b.rolls, rng |-> b.rng]))

\* sorted([die1, die2], reverse=True)
SortedDesc(die1, die2) == IF die1 >= die2 THEN <<die1, die2>> ELSE <<die2, die1>>

\* a D66 composed in base 6
Compose_base6(die1, die2) == die1 * 6 + die2

\* composed = die1 * 10 + die2
Compose(die1, die2) == die1 * 10 + die2

\* roll_d66 never consulting the configuration
roll_d66_explicit_only(rng, unordered, file, dflt) ==
    Bind(DiceParser_roll_dice(rng, 2, 6), LAMBDA rolled :
    Bind(IF unordered
         THEN SortedDesc(rolled.rolls[1].result, rolled.rolls[2].result)
         ELSE <<rolled.rolls[1].result, rolled.rolls[2].result>>, LAMBDA pair :
        [rolls |-> rolled.rolls, composed |-> Compose(pair[1], pair[2]),
         rng |-> rolled.rng, file |-> file]))

roll_d66(rng, unordered, file, dflt) ==
    Bind(IF ~unordered
         THEN get_config_value("dice", "d66_unordered", FALSE, file, dflt)
         ELSE [value |-> unordered, file |-> file], LAMBDA cfg :
    Bind(DiceParser_roll_dice(rng, 2, 6), LAMBDA rolled :
    Bind(IF cfg.value
         THEN SortedDesc(rolled.rolls[1].result, rolled.rolls[2].result)
         ELSE <<rolled.rolls[1].result, rolled.rolls[2].result>>, LAMBDA pair :
        [rolls |-> rolled.rolls, composed |-> Compose(pair[1], pair[2]),
         rng |-> rolled.rng, file |-> cfg.file])))

\* apply_advantage comparing each die with itself instead of drawing extras
ExtraRolls_reused(rng, rolls) == [rolls |-> rolls, rng |-> rng]

\* the extra dice of apply_advantage: one per original die, of its size, in order
RECURSIVE ExtraRolls(_, _)
ExtraRolls(rng, rolls) ==
    IF rolls = <<>> THEN [rolls |-> <<>>, rng |-> rng]
    ELSE IF Len(rolls) = 1
    THEN Bind(randint(rng, rolls[1].die_size), LAMBDA r :
            [rolls |-> <<DiceRoll(rolls[1].die_size, r.value)>>, rng |-> r.rng])
    ELSE Bind(ExtraRolls(rng, SubSeq(rolls, 1, Len(rolls) \div 2)), LAMBDA a :
         Bind(ExtraRolls(a.rng, SubSeq(rolls, (Len(rolls) \div 2) + 1, Len(rolls))), LAMBDA b :
            [rolls |-> a.rolls \o b.rolls, rng |-> b.rng]))

\* the selection with the two modes exchanged
Select_swapped(advantage, original, extra) ==
    IF advantage = "ADVANTAGE"
    THEN (IF original.result <= extra.result THEN original ELSE extra)
    ELSE (IF original.result >= extra.result THEN original ELSE extra)

\* the die apply_advantage keeps at one index
Select(advantage, original, extra) ==
    IF advantage = "ADVANTAGE"
    THEN (IF original.result >= extra.result THEN original ELSE extra)
    ELSE (IF original.result <= extra.result THEN original ELSE extra)

\* apply_advantage listing the extra dice ahead of the originals
apply_advantage_extras_first(rng, rolls, advantage) ==
    IF advantage = "NONE"
    THEN [selected |-> rolls, all |-> rolls, rng |-> rng]
    ELSE Bind(ExtraRolls(rng, rolls), LAMBDA extra :
            [selected |-> [i \in 1..Len(rolls) |->
                              Select(advantage, rolls[i], extra.rolls[i])],
             all |-> extra.rolls \o rolls,
             rng |-> extra.rng])

apply_advantage(rng, rolls, advantage) ==
    IF advantage = "NONE"
    THEN [selected |-> rolls, all |-> rolls, rng |-> rng]
    ELSE Bind(ExtraRolls(rng, rolls), LAMBDA extra :
            [selected |-> [i \in 1..Len(rolls) |->
                              Select(advantage, rolls[i], extra.rolls[i])],
             all |-> rolls \o extra.rolls,
             rng |-> extra.rng])

\* sum(roll.result for roll in rolls)
RECURSIVE SumResults(_)
SumResults(rolls) ==
    IF rolls = <<>> THEN 0
    ELSE IF Len(rolls) = 1 THEN rolls[1].result
    ELSE SumResults(SubSeq(rolls, 1, Len(rolls) \div 2))
         + SumResults(SubSeq(rolls, (Len(rolls) \div 2) + 1, Len(rolls)))

\* the results joined by a bare comma
RECURSIVE JoinResults_tight(_)
JoinResults_tight(rolls) ==
    IF rolls = <<>> THEN <<>>
    ELSE IF Len(rolls) = 1 THEN IntToStr(rolls[1].result)
    ELSE IntToStr(rolls[1].result) \o <<",">> \o JoinResults_tight(Tail(rolls))

\* ", ".join(str(roll.result) for roll in rolls)
RECURSIVE JoinResults(_)
JoinResults(rolls) ==
    IF rolls = <<>> THEN <<>>
    ELSE IF Len(rolls) = 1 THEN IntToStr(rolls[1].result)
    ELSE JoinResults(SubSeq(rolls, 1, Len(rolls) \div 2)) \o <<",", " ">>
         \o JoinResults(SubSeq(rolls, (Len(rolls) \div 2) + 1, Len(rolls)))

\* f" {op}{modifier}" with op = "+" if modifier >= 0 else ""
ModifierText(modifier) ==
    <<" ">> \o (IF modifier >= 0 THEN <<"+">> ELSE <<>>) \o IntToStr(modifier)

\* the arrow of the D66 breakdown, one character
Arrow == "U+2192"

\* the total taken over every die rolled, the discarded ones too
StandardTotal_all(selected, all, modifier) == SumResults(all) + modifier

\* dice_total = sum(roll.result for roll in selected_rolls); dice_total + modifier
StandardTotal(selected, all, modifier) == SumResults(selected) + modifier

\* the standard branch of roll recording every die rolled, the discarded too
RollStandard_keep_all(rng, expression, params, advantage) ==
    Bind(DiceParser_roll_dice(rng, params.count, params.size), LAMBDA initial :
    Bind(IF advantage # "NONE"
         THEN apply_advantage(initial.rng, initial.rolls, advantage)
         ELSE [selected |-> initial.rolls, all |-> initial.rolls, rng |-> initial.rng],
         LAMBDA adv :
    Bind(StandardTotal(adv.selected, adv.all, params.modifier), LAMBDA final_total :
    Bind(JoinResults(adv.selected), LAMBDA selected_results :
        LET rollsPart == IF advantage # "NONE"
                         THEN <<"[">> \o JoinResults(adv.all) \o <<"]", " ", "(">>
                              \o (IF advantage = "ADVANTAGE" THEN <<"a", "d", "v">>
                                  ELSE <<"d", "i", "s">>)
                              \o <<":", " ">> \o selected_results \o <<")">>
                         ELSE <<"[">> \o selected_results \o <<"]">>
            modPart == IF params.modifier # 0 THEN ModifierText(params.modifier) ELSE <<>>
        IN [out |-> [kind |-> "ok",
                     expression |-> expression,
                     dice_type |-> "STANDARD",
                     individual_rolls |-> adv.all,
                     modifier |-> params.modifier,
                     advantage |-> advantage,
                     total |-> final_total,
                     breakdown |-> rollsPart \o modPart \o <<" ", "=", " ">>
                                   \o IntToStr(final_total),
                     d66_composed |-> <<>>],
            rng |-> adv.rng]))))

\* the STANDARD branch of DiceParser.roll
RollStandard(rng, expression, params, advantage) ==
    Bind(DiceParser_roll_dice(rng, params.count, params.size), LAMBDA initial :
    Bind(IF advantage # "NONE"
         THEN apply_advantage(initial.rng, initial.rolls, advantage)
         ELSE [selected |-> initial.rolls, all |-> initial.rolls, rng |-> initial.rng],
         LAMBDA adv :
    Bind(StandardTotal(adv.selected, adv.all, params.modifier), LAMBDA final_total :
    Bind(JoinResults(adv.selected), LAMBDA selected_results :
        LET rollsPart == IF advantage # "NONE"
                         THEN <<"[">> \o JoinResults(adv.all) \o <<"]", " ", "(">>
                              \o (IF advantage = "ADVANTAGE" THEN <<"a", "d", "v">>
                                  ELSE <<"d", "i", "s">>)
                              \o <<":", " ">> \o selected_results \o <<")">>
                         ELSE <<"[">> \o selected_results \o <<"]">>
            modPart == IF params.modifier # 0 THEN ModifierText(params.modifier) ELSE <<>>
        IN [out |-> [kind |-> "ok",
                     expression |-> expression,
                     dice_type |-> "STANDARD",
                     individual_rolls |-> adv.selected,
                     modifier |-> params.modifier,
                     advantage |-> advantage,
                     total |-> final_total,
                     breakdown |-> rollsPart \o modPart \o <<" ", "=", " ">>
                                   \o IntToStr(final_total),
                     d66_composed |-> <<>>],
            rng |-> adv.rng]))))

\* the d66 branch of roll putting its two dice through apply_advantage
RollD66_advantaged(rng, expression, dice_type, params, advantage, file, dflt) ==
    Bind(dice_type = "D66_UNORDERED", LAMBDA unordered :
    Bind(roll_d66(rng, unordered, file, dflt), LAMBDA rolled :
    Bind(apply_advantage(rolled.rng, rolled.rolls, advantage), LAMBDA adv :
    Bind(Compose(adv.selected[1].result, adv.selected[2].result), LAMBDA composed :
    Bind(composed + params.modifier, LAMBDA final_total :
        [out |-> [kind |-> "ok",
                  expression |-> expression,
                  dice_type |-> dice_type,
                  individual_rolls |-> adv.selected,
                  modifier |-> params.modifier,
                  advantage |-> advantage,
                  total |-> final_total,
                  breakdown |-> <<"d", "6", "6", ":", " ">>
                                \o JoinResults(adv.selected)
                                \o <<" ", Arrow, " ">> \o IntToStr(composed),
                  d66_composed |-> <<composed>>],
         rng |-> adv.rng,
         file |-> rolled.file])))))

\* the D66 / D66_UNORDERED branch of DiceParser.roll
RollD66(rng, expression, dice_type, params, advantage, file, dflt) ==
    Bind(dice_type = "D66_UNORDERED", LAMBDA unordered :
    Bind(roll_d66(rng, unordered, file, dflt), LAMBDA rolled :
    Bind(rolled.composed + params.modifier, LAMBDA final_total :
    Bind(SortedDesc(rolled.rolls[1].result, rolled.rolls[2].result), LAMBDA sorted_dice :
        LET rolls == rolled.rolls
            roll_str ==
                <<"d", "6", "6", ":", " ">> \o IntToStr(rolls[1].result) \o <<",">>
                \o IntToStr(rolls[2].result)
                \o (IF unordered
                    THEN <<" ", "(", "s", "o", "r", "t", "e", "d", ":", " ">>
                         \o IntToStr(sorted_dice[1]) \o <<",">>
                         \o IntToStr(sorted_dice[2]) \o <<")">>
                    ELSE <<>>)
                \o <<" ", Arrow, " ">> \o IntToStr(rolled.composed)
                \o (IF params.modifier # 0
                    THEN ModifierText(params.modifier) \o <<" ", "=", " ">>
                         \o IntToStr(final_total)
                    ELSE <<>>)
        IN [out |-> [kind |-> "ok",
                     expression |-> expression,
                     dice_type |-> dice_type,
                     individual_rolls |-> rolls,
                     modifier |-> params.modifier,
                     advantage |-> advantage,
                     total |-> final_total,
                     breakdown |-> roll_str,
                     d66_composed |-> <<rolled.composed>>],
            rng |-> rolled.rng,
            file |-> rolled.file]))))

\* DiceParser.roll drawing a die before it looks at the expression
DiceParser_roll_eager(rng, expression, advantage, file, dflt) ==
    Bind(parse_expression(expression), LAMBDA parsed :
        IF parsed.kind # "ok"
        THEN [out |-> parsed, rng |-> randint(rng, 6).rng, file |-> file]
        ELSE IF parsed.dice_type = "STANDARD"
        THEN Bind(RollStandard(rng, expression, parsed.params, advantage), LAMBDA r :
                [out |-> r.out, rng |-> r.rng, file |-> file])
        ELSE RollD66(rng, expression, parsed.dice_type, parsed.params, advantage,
                     file, dflt))

\* DiceParser.roll: what it returns or raises, the random source and
\* CONFIG_FILE afterwards
DiceParser_roll(rng, expression, advantage, file, dflt) ==
    Bind(parse_expression(expression), LAMBDA parsed :
        IF parsed.kind # "ok"
        THEN [out |-> parsed, rng |-> rng, file |-> file]
        ELSE IF parsed.dice_type = "STANDARD"
        THEN Bind(RollStandard(rng, expression, parsed.params, advantage), LAMBDA r :
                [out |-> r.out, rng |-> r.rng, file |-> file])
        ELSE RollD66(rng, expression, parsed.dice_type, parsed.params, advantage,
                     file, dflt))

\* roll_dice building its parser without the seed
roll_dice_unseeded(expression, seed, advantage, disadvantage, file, dflt, entropy) ==
    IF advantage /\ disadvantage
    THEN [out |-> Raise("ValueError",
                        Lit("Cannot specify both advantage and disadvantage")),
          draws |-> 0, file |-> file]
    ELSE Bind(IF advantage THEN "ADVANTAGE"
              ELSE IF disadvantage THEN "DISADVANTAGE" ELSE "NONE", LAMBDA adv_type :
         Bind(Random(<<>>, entropy), LAMBDA parser :
         Bind(DiceParser_roll(parser, expression, adv_type, file, dflt), LAMBDA r :
            [out |-> r.out, draws |-> r.rng.draws, file |-> r.file])))

\* roll_dice checking its two flags only after the roll
roll_dice_late(expression, seed, advantage, disadvantage, file, dflt, entropy) ==
    Bind(IF advantage THEN "ADVANTAGE"
         ELSE IF disadvantage THEN "DISADVANTAGE" ELSE "NONE", LAMBDA adv_type :
    Bind(Random(seed, entropy), LAMBDA parser :
    Bind(DiceParser_roll(parser, expression, adv_type, file, dflt), LAMBDA r :
        IF r.out.kind = "ok" /\ advantage /\ disadvantage
        THEN [out |-> Raise("ValueError",
                            Lit("Cannot specify both advantage and disadvantage")),
              draws |-> r.rng.draws, file |-> r.file]
        ELSE [out |-> r.out, draws |-> r.rng.draws, file |-> r.file])))

\* the module-level roll_dice(expression, seed, advantage, disadvantage): what
\* it returns or raises, the randint calls made, and CONFIG_FILE afterwards
roll_dice(expression, seed, advantage, disadvantage, file, dflt, entropy) ==
    IF advantage /\ disadvantage
    THEN [out |-> Raise("ValueError", Lit("Cannot specify both advantage and disadvantage")),
          draws |-> 0, file |-> file]
    ELSE Bind(IF advantage THEN "ADVANTAGE"
              ELSE IF disadvantage THEN "DISADVANTAGE" ELSE "NONE", LAMBDA adv_type :
         Bind(Random(seed, entropy), LAMBDA parser :
         Bind(DiceParser_roll(parser, expression, adv_type, file, dflt), LAMBDA r :
            [out |-> r.out, draws |-> r.rng.draws, file |-> r.file])))

(***************************************************************************)
(* The comma-list roller, src/cetools/dice.py                               *)
(***************************************************************************)
MAX_DICE == 1000

\* _DICE_RE  ^\s*(?:(?P<count>\d*)d(?P<sides>\d+)(?P<mod>[+-]\d+)?)\s*$
\* is STANDARD_PATTERN between optional whitespace; an empty count is <<>>
DICE_RE(term) == STANDARD_PATTERN(Strip(term))

parse_term(term) ==
    Bind(DICE_RE(term), LAMBDA m :
        IF ~m.matched
        THEN Raise("InvalidInputError",
                   Lit("Invalid dice expression: ") \o <<"'">> \o term \o <<"'">>)
        ELSE Bind(IF m.count # <<>> THEN ToInt(m.count) ELSE 1, LAMBDA count :
             Bind(ToInt(m.size), LAMBDA sides :
                IF count < 1
                THEN Raise("InvalidInputError", Lit("Dice count must be >= 1"))
                ELSE IF sides < 1
                THEN Raise("InvalidInputError", Lit("Dice sides must be >= 1"))
                ELSE [kind |-> "ok", count |-> count, sides |-> sides,
                      modifier |-> IF m.modifier # <<>> THEN ToInt(m.modifier) ELSE 0])))

\* expression.split(",")
RECURSIVE SplitComma(_)
SplitComma(s) ==
    Bind({i \in 1..Len(s) : s[i] = ","}, LAMBDA commas :
        IF commas = {} THEN <<s>>
        ELSE Bind(CHOOSE i \in commas : \A j \in commas : i <= j, LAMBDA c :
                <<SubSeq(s, 1, c - 1)>> \o SplitComma(SubSeq(s, c + 1, Len(s)))))

\* [p.strip() for p in expression.split(",") if p.strip()]
Parts(expression) ==
    Bind(SplitComma(expression), LAMBDA raw :
        SelectSeq([i \in 1..Len(raw) |-> Strip(raw[i])], LAMBDA t : t # <<>>))

\* the loop over the parts leaving the modifiers out of the total
RECURSIVE RollParts_no_modifier(_, _, _, _, _)
RollParts_no_modifier(rng, parts, i, breakdown, total) ==
    IF i > Len(parts)
    THEN [res |-> [kind |-> "ok", breakdown |-> breakdown, total |-> total], rng |-> rng]
    ELSE Bind(parse_term(parts[i]), LAMBDA term :
            IF term.kind # "ok" THEN [res |-> term, rng |-> rng]
            ELSE IF term.count > MAX_DICE
            THEN [res |-> Raise("InvalidInputError",
                                Lit("Dice count too large: ") \o IntToStr(term.count)),
                  rng |-> rng]
            ELSE Bind(DiceParser_roll_dice(rng, term.count, term.sides), LAMBDA drawn :
                 Bind(breakdown \o [k \in 1..Len(drawn.rolls) |-> drawn.rolls[k].result],
                      LAMBDA grown :
                 Bind(total + SumResults(drawn.rolls), LAMBDA sum :
                    RollParts_no_modifier(drawn.rng, parts, i + 1, grown, sum)))))

\* the loop over the parts, from part i on
RECURSIVE RollParts(_, _, _, _, _)
RollParts(rng, parts, i, breakdown, total) ==
    IF i > Len(parts)
    THEN [res |-> [kind |-> "ok", breakdown |-> breakdown, total |-> total], rng |-> rng]
    ELSE Bind(parse_term(parts[i]), LAMBDA term :
            IF term.kind # "ok" THEN [res |-> term, rng |-> rng]
            ELSE IF term.count > MAX_DICE
            THEN [res |-> Raise("InvalidInputError",
                                Lit("Dice count too large: ") \o IntToStr(term.count)),
                  rng |-> rng]
            ELSE Bind(DiceParser_roll_dice(rng, term.count, term.sides), LAMBDA drawn :
                 Bind(breakdown \o [k \in 1..Len(drawn.rolls) |-> drawn.rolls[k].result],
                      LAMBDA grown :
                 Bind(total + SumResults(drawn.rolls) + term.modifier, LAMBDA sum :
                    RollParts(drawn.rng, parts, i + 1, grown, sum)))))

\* roll(expression, seed): what it returns or raises, and the randint calls made
roll(expression, seed, entropy) ==
    IF Strip(expression) = <<>>
    THEN [out |-> Raise("InvalidInputError", Lit("Expression must be a non-empty string")),
          draws |-> 0]
    ELSE Bind(Parts(expression), LAMBDA parts :
            IF parts = <<>>
            THEN [out |-> Raise("InvalidInputError", Lit("No dice expressions found")),
                  draws |-> 0]
            ELSE Bind(RollParts(Random(seed, entropy), parts, 1, <<>>, 0), LAMBDA r :
                    [out |-> IF r.res.kind # "ok" THEN r.res
                             ELSE [kind |-> "ok", expression |-> expression,
                                   breakdown |-> r.res.breakdown, total |-> r.res.total],
                     draws |-> r.rng.draws]))

(***************************************************************************)
(* Inputs                                                                   *)
(***************************************************************************)
Modes == {"NONE", "ADVANTAGE", "DISADVANTAGE"}

Seeds == {<<n>> : n \in 0..MaxSeed}

\* an integer seed, or None
OptSeeds == Seeds \cup {<<>>}

Alphabet == {"d", "D", "6", "0", "2", "+", "-", "u", " "}

\* every text over Alphabet of at most MaxLen characters
BoundedTexts == UNION {[1..n -> Alphabet] : n \in 0..MaxLen}

\* the texts of tests/test_dice.py and of the specification, and a few more
ExampleTexts ==
    {<<>>,
     <<"i", "n", "v", "a", "l", "i", "d">>,
     <<"2", "d">>,
     <<"d">>,
     <<"d", "6", "d", "6">>,
     <<"2", "d", "6", "+">>,
     <<"d", "1", "0", "0", "a", "b", "c">>,
     <<"d", "6", "6", "u", "x">>,
     <<"-", "1", "d", "6">>,
     <<"1", "d", "-", "6">>,
     <<"0", "d", "6">>,
     <<"2", "d", "0">>,
     <<"1", "d", "0">>,
     <<"a", "b", "c">>,
     <<"2", "d", "6", "+", "3">>,
     <<"d", "2", "0">>,
     <<"3", "d", "8", "-", "2">>,
     <<"D", "6", "6", "U", "-", "1">>,
     <<"d", "6", "6", "+", "3">>,
     <<" ", "2", "D", "6", "-", "1", " ">>,
     <<"0", "0", "d", "6">>,
     <<"d", "6", "6", "u", "+", "0">>,
     <<"1", "d", "6", "6">>,
     <<"d", "0", "6", "6">>,
     <<"2", "d", "6", " ", "+", "1">>}

ParseInputs == BoundedTexts \cup ExampleTexts

Sizes == {1, 2, 6, 20}

\* the text of count d size modifier, the modifier left out when it is 0
StdText(count, size, modifier) ==
    IntToStr(count) \o <<"d">> \o IntToStr(size)
    \o (IF modifier = 0 THEN <<>> ELSE Tail(ModifierText(modifier)))

D66Text(unordered, modifier) ==
    <<"d", "6", "6">> \o (IF unordered THEN <<"u">> ELSE <<>>)
    \o (IF modifier = 0 THEN <<>> ELSE Tail(ModifierText(modifier)))

RollTexts ==
    {StdText(c, z, m) : c \in 1..MaxCount, z \in Sizes, m \in (0 - MaxMod)..MaxMod}
    \cup {D66Text(u, m) : u \in BOOLEAN, m \in (0 - MaxMod)..MaxMod}
    \cup {<<"0", "d", "6">>, <<"2", "d">>, <<"d", "6", "6", "x">>}
    \cup {<<"2", "d", "6", "+", "0">>, <<"2", "d", "6", "-", "0">>}

\* dice a caller may hand to apply_advantage
DiceFaces == {DiceRoll(2, 1), DiceRoll(2, 2), DiceRoll(6, 3), DiceRoll(6, 6)}

RollLists == UNION {[1..n -> DiceFaces] : n \in 0..MaxCount}

\* CONFIG_FILE before a call: absent, the defaults, the flag set, no dice section
ConfigFiles ==
    {[exists |-> FALSE, data |-> <<>>],
     [exists |-> TRUE, data |-> InitialDefaultConfig],
     [exists |-> TRUE, data |-> [InitialDefaultConfig EXCEPT !.dice.d66_unordered = TRUE]],
     [exists |-> TRUE, data |-> [general |-> [export_format |-> "yaml", output_format |-> "json"],
                                 character |-> [default_template |-> "custom"]]]}

\* DEFAULT_CONFIG before a call: as written, or with the flag set through the
\* shared section dictionary
DefaultConfigs ==
    {InitialDefaultConfig, [InitialDefaultConfig EXCEPT !.dice.d66_unordered = TRUE]}

\* the values set_config_value is called with
ConfigWrites == {<<"dice", "d66_unordered", TRUE>>, <<"dice", "d66_unordered", FALSE>>}

ParserIds == {"p1", "p2"}

\* the seeds the two parsers are constructed with
EngineSeeds == {<<>>, <<1>>, <<2>>}

\* the calls made on a DiceParser
EngineOps ==
    {[name |-> "roll_dice", count |-> 2, size |-> 6],
     [name |-> "roll_d66", unordered |-> FALSE],
     [name |-> "apply_advantage", rolls |-> <<DiceRoll(6, 3), DiceRoll(6, 6)>>,
      advantage |-> "ADVANTAGE"],
     [name |-> "roll", expression |-> <<"2", "d", "6", "+", "1">>, advantage |-> "DISADVANTAGE"],
     [name |-> "roll", expression |-> <<"d", "6", "6", "-", "1">>, advantage |-> "NONE"],
     [name |-> "roll", expression |-> <<"0", "d", "6">>, advantage |-> "NONE"],
     [name |-> "roll", expression |-> <<"2", "d">>, advantage |-> "ADVANTAGE"]}

\* the calls of the module-level roll_dice: expression, seed, advantage, disadvantage
ConvCalls ==
    {<<<<"d", "6", "6">>, <<1>>, FALSE, FALSE>>,
     <<<<"d", "6", "6">>, <<2>>, FALSE, FALSE>>,
     <<<<"d", "6", "6">>, <<>>, FALSE, FALSE>>,
     <<<<"2", "d", "6", "+", "1">>, <<1>>, TRUE, FALSE>>,
     <<<<"0", "d", "6">>, <<1>>, FALSE, FALSE>>}

\* expressions at the ceiling of the comma-list roller and just above it
LimitTexts == {<<"1", "0", "0", "0", "d", "1">>, <<"1", "0", "0", "1", "d", "1">>, <<"2", "d", "6", ",", "1", "0", "0", "1", "d", "1">>}

(***************************************************************************)
(* State                                                                    *)
(***************************************************************************)
NoFile == [exists |-> FALSE, data |-> <<>>]

\* nothing saved yet and no directory made
NoFiles == [dirs |-> {}, data |-> <<>>]

NoSingle == [fn |-> "none", input |-> <<>>, done |-> TRUE, out |-> <<>>]

Pending(fn, input) == [fn |-> fn, input |-> input, done |-> FALSE, out |-> <<>>]

Init ==
    /\ configFile = NoFile
    /\ DEFAULT_CONFIG = InitialDefaultConfig
    /\ parsers = <<>>
    /\ trace = <<>>
    /\ calls = <<>>
    /\ single = NoSingle
    /\ characters = <<>>
    /\ files = NoFiles
    /\ heap = <<>>

(***************************************************************************)
(* Configuration actions                                                    *)
(***************************************************************************)
SetConfigValue(section, key, value) ==
    /\ \E r \in {set_config_value(section, key, value, configFile, DEFAULT_CONFIG)} :
          /\ configFile' = r.file
          /\ DEFAULT_CONFIG' = r.dflt
    /\ UNCHANGED <<parsers, trace, calls, single, characters, files, heap>>

\* the configuration file goes away (a fresh CONFIG_FILE path, as the tests patch it)
RemoveConfigFile ==
    /\ configFile.exists
    /\ configFile' = NoFile
    /\ UNCHANGED <<DEFAULT_CONFIG, parsers, trace, calls, single, characters, files, heap>>

ConfigStep ==
    \/ \E w \in ConfigWrites : SetConfigValue(w[1], w[2], w[3])
    \/ RemoveConfigFile

(***************************************************************************)
(* One call on its own: parse_expression on a text, DiceParser.roll and     *)
(* DiceParser.apply_advantage on a freshly seeded parser.                   *)
(***************************************************************************)
Quiet ==
    /\ parsers = <<>> /\ trace = <<>> /\ calls = <<>>
    /\ characters = <<>> /\ files = NoFiles /\ heap = <<>>

InitParse ==
    /\ configFile = NoFile
    /\ DEFAULT_CONFIG = InitialDefaultConfig
    /\ Quiet
    /\ single \in {Pending("parse_expression", t) : t \in ParseInputs}

ParseExpression ==
    /\ single.fn = "parse_expression"
    /\ ~single.done
    /\ single' = [single EXCEPT !.done = TRUE, !.out = parse_expression(single.input)]
    /\ UNCHANGED <<configFile, DEFAULT_CONFIG, parsers, trace, calls, characters, files, heap>>

NextParse == ParseExpression

SpecParse == InitParse /\ [][NextParse]_vars

InitOne ==
    /\ configFile \in ConfigFiles
    /\ DEFAULT_CONFIG \in DefaultConfigs
    /\ Quiet
    /\ single \in
         {Pending("roll", [expression |-> e, seed |-> s, advantage |-> a]) :
              e \in RollTexts, s \in Seeds, a \in Modes}
         \cup {Pending("apply_advantage", [rolls |-> r, seed |-> s, advantage |-> a]) :
              r \in RollLists, s \in Seeds, a \in Modes}
         \cup {Pending("roll_dice", [expression |-> e, seed |-> s, advantage |-> a,
                                     disadvantage |-> d]) :
              e \in RollTexts, s \in OptSeeds, a \in BOOLEAN, d \in BOOLEAN}

\* DiceParser(seed).roll(expression, advantage)
RollOnce ==
    /\ single.fn = "roll"
    /\ ~single.done
    /\ \E r \in {DiceParser_roll(Random(single.input.seed, 0), single.input.expression,
                                 single.input.advantage, configFile, DEFAULT_CONFIG)} :
          /\ single' = [single EXCEPT !.done = TRUE, !.out = [result |-> r.out, rng |-> r.rng]]
          /\ configFile' = r.file
    /\ UNCHANGED <<DEFAULT_CONFIG, parsers, trace, calls, characters, files, heap>>

\* DiceParser(seed).apply_advantage(rolls, advantage)
ApplyAdvantageOnce ==
    /\ single.fn = "apply_advantage"
    /\ ~single.done
    /\ \E r \in {apply_advantage(Random(single.input.seed, 0), single.input.rolls,
                                 single.input.advantage)} :
          single' = [single EXCEPT !.done = TRUE, !.out = r]
    /\ UNCHANGED <<configFile, DEFAULT_CONFIG, parsers, trace, calls, characters, files, heap>>

\* roll_dice(expression, seed, advantage, disadvantage); touched records
\* whether CONFIG_FILE changed during the call
RollDiceOnce ==
    /\ single.fn = "roll_dice"
    /\ ~single.done
    /\ \E entropy \in OsEntropy :
       \E r \in {roll_dice(single.input.expression, single.input.seed,
                           single.input.advantage, single.input.disadvantage,
                           configFile, DEFAULT_CONFIG, entropy)} :
          /\ single' = [single EXCEPT !.done = TRUE,
                                      !.out = [result |-> r.out, draws |-> r.draws,
                                               touched |-> r.file # configFile]]
          /\ configFile' = r.file
    /\ UNCHANGED <<DEFAULT_CONFIG, parsers, trace, calls, characters, files, heap>>

NextOne == RollOnce \/ ApplyAdvantageOnce \/ RollDiceOnce

SpecOne == InitOne /\ [][NextOne]_vars

(***************************************************************************)
(* The two grammars, stated as the forms a text may have                    *)
(***************************************************************************)
AllDigits(s) == \A i \in 1..Len(s) : s[i] \in Digits

AllZeros(s) == \A i \in 1..Len(s) : s[i] = "0"

\* +N or -N
IsModifier(s) == Len(s) >= 2 /\ s[1] \in Signs /\ AllDigits(Tail(s))

\* d66, an optional u, an optional modifier, in either letter case
InD66Grammar(s) ==
    /\ Len(s) >= 3
    /\ s[1] \in {"d", "D"} /\ s[2] = "6" /\ s[3] = "6"
    /\ \E k \in {3, 4} :
          /\ k <= Len(s)
          /\ (k = 4 => s[4] \in {"u", "U"})
          /\ LET rest == SubSeq(s, k + 1, Len(s))
             IN rest = <<>> \/ IsModifier(rest)

\* s is count d size modifier with the d at i and the size ending at j
StdSplit(s, i, j) ==
    /\ s[i] \in {"d", "D"}
    /\ AllDigits(SubSeq(s, 1, i - 1))
    /\ j > i
    /\ AllDigits(SubSeq(s, i + 1, j))
    /\ LET rest == SubSeq(s, j + 1, Len(s))
       IN rest = <<>> \/ IsModifier(rest)

InStdGrammar(s) == \E i \in 1..Len(s) : \E j \in (i + 1)..Len(s) : StdSplit(s, i, j)

\* a standard form whose written count or size is zero
ZeroCountOrSize(s) ==
    \E i \in 1..Len(s) : \E j \in (i + 1)..Len(s) :
        /\ StdSplit(s, i, j)
        /\ \/ (i > 1 /\ AllZeros(SubSeq(s, 1, i - 1)))
           \/ AllZeros(SubSeq(s, i + 1, j))

\* the texts t is, once leading and trailing whitespace is dropped
Trims(t) ==
    {SubSeq(t, a + 1, Len(t) - b) : a \in 0..Len(t), b \in 0..Len(t)}
    \cap {u \in UNION {[1..n -> {t[i] : i \in 1..Len(t)}] : n \in 0..Len(t)} :
            \E a \in 0..Len(t) : \E b \in 0..(Len(t) - a) :
                /\ u = SubSeq(t, a + 1, Len(t) - b)
                /\ \A i \in 1..a : t[i] \in Whitespace
                /\ \A i \in (Len(t) - b + 1)..Len(t) : t[i] \in Whitespace
                /\ (u = <<>> \/ (u[1] \notin Whitespace /\ u[Len(u)] \notin Whitespace))}

\* t occurs in msg
Contains(msg, t) ==
    \E i \in 0..(Len(msg) - Len(t)) : SubSeq(msg, i + 1, i + Len(t)) = t

Parsed == single.fn = "parse_expression" /\ single.done

(***************************************************************************)
(* Claims on parse_expression (SpecParse)                                   *)
(***************************************************************************)
\* C7: parse_expression raises DiceExpressionError, and returns no request,
\* for every text that once trimmed has neither the D66 form nor the standard
\* form, and for every text of the standard form with a zero count or size.
C7_GrammarRejection ==
    Parsed =>
        \A u \in Trims(single.input) :
            (/\ ~InD66Grammar(u)
             /\ (~InStdGrammar(u) \/ ZeroCountOrSize(u)))
            => /\ single.out.kind = "DiceExpressionError"
               /\ "dice_type" \notin DOMAIN single.out

\* C7 witness: 0d6 was parsed and rejected
C7_Witness ==
    /\ Parsed
    /\ single.input = <<"0", "d", "6">>
    /\ single.out.kind = "DiceExpressionError"

\* C8: every DiceExpressionError of the parser carries the offending input
\* text in its message, for texts of no grammar and for zero count or size.
C8_MessageNamesInput ==
    (Parsed /\ single.out.kind = "DiceExpressionError")
        => \A u \in Trims(single.input) : Contains(single.out.message, u)

(***************************************************************************)
(* Claims on one DiceParser.roll / apply_advantage call (SpecOne)           *)
(***************************************************************************)
Rolled == single.fn = "roll" /\ single.done /\ single.out.result.kind = "ok"

RECURSIVE TotalOf(_)
TotalOf(rolls) == IF rolls = <<>> THEN 0 ELSE rolls[1].result + TotalOf(Tail(rolls))

\* C3: for every successful standard roll, in any advantage mode, the total
\* is the sum of the results of the selected dice plus the written modifier.
C3_StandardTotal ==
    (Rolled /\ single.out.result.dice_type = "STANDARD") =>
        \A c \in 1..MaxCount, z \in Sizes, m \in (0 - MaxMod)..MaxMod :
            single.input.expression = StdText(c, z, m) =>
                /\ single.out.result.modifier = m
                /\ single.out.result.total
                     = TotalOf(single.out.result.individual_rolls) + m

\* C3 witness: 2d6-2 rolled with disadvantage
C3_Witness ==
    /\ Rolled
    /\ single.input.expression = <<"2", "d", "6", "-", "2">>
    /\ single.input.advantage = "DISADVANTAGE"
    /\ single.out.result.dice_type = "STANDARD"
    /\ Len(single.out.result.individual_rolls) = 2

Advantaged == single.fn = "apply_advantage" /\ single.done

\* C4: apply_advantage selects at every index the larger (ADVANTAGE) or the
\* smaller (DISADVANTAGE) of the original die and the extra die drawn for it;
\* under NONE the originals come back as both the selected and the all set.
C4_AdvantageSelection ==
    Advantaged =>
        LET original == single.input.rolls
            n == Len(original)
            selected == single.out.selected
            all == single.out.all
        IN IF single.input.advantage = "NONE"
           THEN selected = original /\ all = original
           ELSE /\ Len(selected) = n
                /\ Len(all) = 2 * n
                /\ \A i \in 1..n :
                     LET o == original[i].result
                         x == all[n + i].result
                         r == selected[i].result
                     IN /\ all[i] = original[i]
                        /\ r \in {o, x}
                        /\ IF single.input.advantage = "ADVANTAGE"
                           THEN r >= o /\ r >= x
                           ELSE r <= o /\ r <= x

\* C4 witness: under ADVANTAGE an extra die beat its original
C4_Witness ==
    /\ Advantaged
    /\ single.input.advantage = "ADVANTAGE"
    /\ \E i \in 1..Len(single.input.rolls) :
          /\ single.out.all[Len(single.input.rolls) + i].result > single.input.rolls[i].result
          /\ single.out.selected[i].result > single.input.rolls[i].result

IsD66 == Rolled /\ single.out.result.dice_type \in {"D66", "D66_UNORDERED"}

\* C5: every D66 roll records exactly two dice of size 6, composes them to
\* 10*first + second with both digits in 1..6, and adds the modifier.
C5_D66Range ==
    IsD66 =>
        LET res == single.out.result
            rolls == res.individual_rolls
        IN /\ Len(rolls) = 2
           /\ \A i \in 1..2 : rolls[i].die_size = 6 /\ rolls[i].result \in 1..6
           /\ Len(res.d66_composed) = 1
           /\ LET v == res.d66_composed[1]
              IN /\ (v \div 10) \in 1..6
                 /\ (v % 10) \in 1..6
                 /\ \/ v = 10 * rolls[1].result + rolls[2].result
                    \/ v = 10 * rolls[2].result + rolls[1].result
                 /\ \A u \in BOOLEAN, m \in (0 - MaxMod)..MaxMod :
                       single.input.expression = D66Text(u, m) => res.total = v + m

\* C5 witness: a d66 with a modifier, composed larger die first because the
\* configuration says so
C5_Witness ==
    /\ IsD66
    /\ single.out.result.dice_type = "D66"
    /\ single.out.result.modifier = 2
    /\ single.out.result.individual_rolls[1].result < single.out.result.individual_rolls[2].result
    /\ single.out.result.d66_composed[1]
         = 10 * single.out.result.individual_rolls[2].result
           + single.out.result.individual_rolls[1].result

(***************************************************************************)
(* DiceParser objects: the first is driven freely, the second with the      *)
(* calls made on the first, in their order                                  *)
(***************************************************************************)
\* parser = DiceParser(seed)
NewParser(p, seed, entropy) ==
    /\ p \notin DOMAIN parsers
    /\ parsers' = DictSet(parsers, p, [seed |-> seed, rng |-> Random(seed, entropy)])
    /\ trace' = DictSet(trace, p, <<>>)
    /\ UNCHANGED <<configFile, DEFAULT_CONFIG, calls, single, characters, files, heap>>

\* what the call op returns or raises on a parser whose source is rng
Apply(op, rng, file, dflt) ==
    CASE op.name = "roll_dice" ->
            Bind(DiceParser_roll_dice(rng, op.count, op.size), LAMBDA r :
                [out |-> [kind |-> "ok", rolls |-> r.rolls], rng |-> r.rng, file |-> file])
      [] op.name = "roll_d66" ->
            Bind(roll_d66(rng, op.unordered, file, dflt), LAMBDA r :
                [out |-> [kind |-> "ok", rolls |-> r.rolls, composed |-> r.composed],
                 rng |-> r.rng, file |-> r.file])
      [] op.name = "apply_advantage" ->
            Bind(apply_advantage(rng, op.rolls, op.advantage), LAMBDA r :
                [out |-> [kind |-> "ok", selected |-> r.selected, all |-> r.all],
                 rng |-> r.rng, file |-> file])
      [] op.name = "roll" ->
            DiceParser_roll(rng, op.expression, op.advantage, file, dflt)

\* the second parser repeats the calls of the first
Follows(p, op) ==
    \/ p = "p1"
    \/ /\ "p1" \in DOMAIN trace
       /\ Len(trace["p1"]) > Len(trace[p])
       /\ trace["p1"][Len(trace[p]) + 1].op = op

Drive(p, op) ==
    /\ p \in DOMAIN parsers
    /\ Len(trace[p]) < MaxOps
    /\ Follows(p, op)
    /\ \E r \in {Apply(op, parsers[p].rng, configFile, DEFAULT_CONFIG)} :
          /\ parsers' = [parsers EXCEPT ![p].rng = r.rng]
          /\ trace' = [trace EXCEPT ![p] = Append(@, [op |-> op, out |-> r.out])]
          /\ configFile' = r.file
    /\ UNCHANGED <<DEFAULT_CONFIG, calls, single, characters, files, heap>>

CallRollDice(p) == \E op \in EngineOps : op.name = "roll_dice" /\ Drive(p, op)

CallRollD66(p) == \E op \in EngineOps : op.name = "roll_d66" /\ Drive(p, op)

CallApplyAdvantage(p) == \E op \in EngineOps : op.name = "apply_advantage" /\ Drive(p, op)

CallRoll(p) == \E op \in EngineOps : op.name = "roll" /\ Drive(p, op)

NextEngine ==
    \/ \E p \in ParserIds, seed \in EngineSeeds, entropy \in OsEntropy :
          NewParser(p, seed, entropy)
    \/ \E p \in ParserIds : CallRollDice(p)
    \/ \E p \in ParserIds : CallRollD66(p)
    \/ \E p \in ParserIds : CallApplyAdvantage(p)
    \/ \E p \in ParserIds : CallRoll(p)
    \/ ConfigStep

SpecEngine == Init /\ [][NextEngine]_vars

(***************************************************************************)
(* The module-level roll functions                                          *)
(***************************************************************************)
\* the dice.d66_unordered setting a call made now would read
SettingNow == get_config_value("dice", "d66_unordered", FALSE, configFile, DEFAULT_CONFIG).value

\* roll_dice(expression, seed=seed, advantage=..., disadvantage=...)
RollDice(expression, seed, advantage, disadvantage, entropy) ==
    /\ Len(calls) < MaxCalls
    /\ \E r \in {roll_dice(expression, seed, advantage, disadvantage,
                           configFile, DEFAULT_CONFIG, entropy)} :
          /\ calls' = Append(calls, [api |-> "roll_dice", expression |-> expression,
                                     seed |-> seed, advantage |-> advantage,
                                     disadvantage |-> disadvantage,
                                     d66_unordered |-> SettingNow,
                                     out |-> r.out, draws |-> r.draws])
          /\ configFile' = r.file
    /\ UNCHANGED <<DEFAULT_CONFIG, parsers, trace, single, characters, files, heap>>

\* the comma-list roll(expression, seed=seed)
Roll(expression, seed, entropy) ==
    /\ Len(calls) < MaxCalls
    /\ \E r \in {roll(expression, seed, entropy)} :
          calls' = Append(calls, [api |-> "roll", expression |-> expression,
                                  seed |-> seed, out |-> r.out, draws |-> r.draws])
    /\ UNCHANGED <<configFile, DEFAULT_CONFIG, parsers, trace, single, characters, files, heap>>

NextConv ==
    \/ \E c \in ConvCalls, entropy \in OsEntropy : RollDice(c[1], c[2], c[3], c[4], entropy)
    \/ ConfigStep

SpecConv == Init /\ [][NextConv]_vars

NextLimit ==
    \/ \E e \in LimitTexts : RollDice(e, <<1>>, FALSE, FALSE, 0)
    \/ \E e \in LimitTexts : Roll(e, <<1>>, 0)

SpecLimit == Init /\ [][NextLimit]_vars

(***************************************************************************)
(* Everything together                                                      *)
(***************************************************************************)
Next ==
    \/ NextEngine
    \/ \E c \in ConvCalls, entropy \in OsEntropy : RollDice(c[1], c[2], c[3], c[4], entropy)
    \/ \E c \in ConvCalls, entropy \in OsEntropy : Roll(c[1], c[2], entropy)

Spec == Init /\ [][Next]_vars

(***************************************************************************)
(* Seeded rolls repeat                                                      *)
(***************************************************************************)
\* two logged roll_dice calls with the same expression, seed and flags
SameRequest(a, b) ==
    /\ a.api = "roll_dice" /\ b.api = "roll_dice"
    /\ a.expression = b.expression
    /\ a.seed # <<>> /\ a.seed = b.seed
    /\ a.advantage = b.advantage /\ a.disadvantage = b.disadvantage

\* the same total, selected dice and breakdown, or the same failure
SameResult(a, b) ==
    /\ a.kind = b.kind
    /\ a.kind = "ok" =>
          /\ a.total = b.total
          /\ a.individual_rolls = b.individual_rolls
          /\ a.breakdown = b.breakdown

\* a d66 without the u suffix, the one expression that reads the setting
PlainD66(expression) ==
    \E parsed \in {parse_expression(expression)} :
        parsed.kind = "ok" /\ parsed.dice_type = "D66"

\* C1 as stated: any two roll_dice calls with the same expression, seed and
\* flags return the same total, selected dice and breakdown.
C1_Determinism ==
    \A i \in 1..Len(calls), j \in 1..Len(calls) :
        SameRequest(calls[i], calls[j]) => SameResult(calls[i].out, calls[j].out)

\* C1: two roll_dice calls with the same expression, seed and flags return the
\* same total, selected dice and breakdown, whatever was rolled before or
\* between them, provided the expression is not a d66 without u or the
\* dice.d66_unordered setting had the same value at both calls.
C1_DeterminismSameSetting ==
    \A i \in 1..Len(calls), j \in 1..Len(calls) :
        /\ SameRequest(calls[i], calls[j])
        /\ \/ ~PlainD66(calls[i].expression)
           \/ calls[i].d66_unordered = calls[j].d66_unordered
        => SameResult(calls[i].out, calls[j].out)

\* C1 witness: the same seeded d66 rolled twice under the same setting with a
\* different roll in between
C1_Witness ==
    /\ Len(calls) = 3
    /\ SameRequest(calls[1], calls[3])
    /\ PlainD66(calls[1].expression)
    /\ calls[1].d66_unordered /\ calls[3].d66_unordered
    /\ calls[1].out.kind = "ok"
    /\ calls[2].expression # calls[1].expression
    /\ calls[2].out.kind = "ok"
    /\ calls[1].out.individual_rolls = calls[3].out.individual_rolls

(***************************************************************************)
(* Two parsers with one seed                                                *)
(***************************************************************************)
\* the die results a call returned, in their order
DieResults(out) ==
    LET Results(rolls) == [k \in 1..Len(rolls) |-> rolls[k].result]
    IN IF out.kind # "ok" THEN <<>>
       ELSE IF "all" \in DOMAIN out THEN Results(out.selected) \o Results(out.all)
       ELSE IF "rolls" \in DOMAIN out THEN Results(out.rolls)
       ELSE Results(out.individual_rolls)

BothBuilt == "p1" \in DOMAIN parsers /\ "p2" \in DOMAIN parsers

\* C2: two parsers constructed with the same seed and given the same calls in
\* the same order return, call by call, the same die results.
C2_SameSeedSameDice ==
    BothBuilt /\ parsers["p1"].seed # <<>> /\ parsers["p1"].seed = parsers["p2"].seed
    => \A i \in 1..Len(trace["p2"]) :
          (\A k \in 1..i : trace["p1"][k].op = trace["p2"][k].op)
          => DieResults(trace["p1"][i].out) = DieResults(trace["p2"][i].out)

\* C2 witness: both parsers have made the same two calls, a d66 first and a
\* roll needing more dice after it
C2_Witness ==
    /\ BothBuilt
    /\ parsers["p1"].seed # <<>> /\ parsers["p1"].seed = parsers["p2"].seed
    /\ Len(trace["p1"]) = 2 /\ Len(trace["p2"]) = 2
    /\ trace["p2"][1].op.name = "roll_d66" /\ trace["p1"][1].op = trace["p2"][1].op
    /\ trace["p2"][2].op.name = "roll" /\ trace["p1"][2].op = trace["p2"][2].op
    /\ Len(DieResults(trace["p2"][2].out)) = 2

(***************************************************************************)
(* Failed rolls                                                             *)
(***************************************************************************)
\* this step is a DiceParser.roll on p that raised DiceExpressionError
FailedRoll(p) ==
    /\ Len(trace'[p]) = Len(trace[p]) + 1
    /\ trace'[p][Len(trace'[p])].op.name = "roll"
    /\ trace'[p][Len(trace'[p])].out.kind = "DiceExpressionError"

\* C10: a DiceParser.roll that raises DiceExpressionError leaves the parser's
\* random source and the configuration file as they were, so what follows on
\* that parser is what would have followed without the call.
C10_FailedRollDrawsNothing ==
    [][\A p \in DOMAIN trace :
          FailedRoll(p) => /\ parsers'[p].rng = parsers[p].rng
                           /\ configFile' = configFile
                           /\ DEFAULT_CONFIG' = DEFAULT_CONFIG]_vars

\* C10 witness: a parser whose roll failed and whose next roll succeeded
C10_Witness ==
    \E p \in DOMAIN trace :
        /\ Len(trace[p]) = 2
        /\ trace[p][1].op.name = "roll" /\ trace[p][1].out.kind = "DiceExpressionError"
        /\ trace[p][2].op.name = "roll" /\ trace[p][2].out.kind = "ok"
        /\ parsers[p].rng.draws > 0

(***************************************************************************)
(* Both flags at once                                                       *)
(***************************************************************************)
BothFlags ==
    /\ single.fn = "roll_dice" /\ single.done
    /\ single.input.advantage /\ single.input.disadvantage

\* C9: roll_dice with advantage and disadvantage both set raises ValueError,
\* whatever the expression, with no die drawn and the configuration file not
\* read.
C9_BothFlagsRejected ==
    BothFlags => /\ single.out.result.kind = "ValueError"
                 /\ single.out.draws = 0
                 /\ ~single.out.touched

\* C9 witness: both flags set on an expression that does not parse, with no
\* configuration file to begin with
C9_Witness ==
    /\ BothFlags
    /\ parse_expression(single.input.expression).kind = "DiceExpressionError"
    /\ single.out.result.kind = "ValueError"
    /\ ~configFile.exists

(***************************************************************************)
(* The ceiling on the number of dice                                        *)
(***************************************************************************)
\* some term of the request asks for more than MAX_DICE dice
OverCeiling(expression) ==
    \E i \in 1..Len(Parts(expression)) :
        \E term \in {parse_term(Parts(expression)[i])} :
            term.kind = "ok" /\ term.count > MAX_DICE

\* the error each entry point raises for a malformed expression
ExpressionError(api) ==
    IF api = "roll_dice" THEN "DiceExpressionError" ELSE "InvalidInputError"

\* C6 as stated: on either entry point a request for more than 1000 dice
\* fails with the expression error and draws nothing, and 1000d1 succeeds.
C6_CountCeiling ==
    \A i \in 1..Len(calls) :
        /\ OverCeiling(calls[i].expression)
              => /\ calls[i].out.kind = ExpressionError(calls[i].api)
                 /\ calls[i].draws = 0
        /\ calls[i].expression = <<"1", "0", "0", "0", "d", "1">>
              => calls[i].out.kind = "ok" /\ calls[i].draws = MAX_DICE

(***************************************************************************)
(* The order of the two dice of a d66                                       *)
(***************************************************************************)
Max(a, b) == IF a >= b THEN a ELSE b

Min(a, b) == IF a <= b THEN a ELSE b

\* this step is a DiceParser.roll that returned a d66 result
D66RollStep ==
    /\ single.fn = "roll" /\ ~single.done /\ single'.done
    /\ single'.out.result.kind = "ok"
    /\ single'.out.result.dice_type \in {"D66", "D66_UNORDERED"}

\* C11: a d66 roll composes 10*max+min of its two dice when the expression
\* has the u suffix or the dice.d66_unordered setting read at the call is
\* true, and 10*d1+d2 in draw order otherwise; the dice recorded are the two
\* drawn, in draw order.
C11_D66Ordering ==
    [][D66RollStep =>
          LET res == single'.out.result
              drawn == DiceParser_roll_dice(Random(single.input.seed, 0), 2, 6).rolls
              d1 == drawn[1].result
              d2 == drawn[2].result
              sorted == res.dice_type = "D66_UNORDERED" \/ SettingNow
          IN /\ res.individual_rolls = drawn
             /\ res.d66_composed = <<IF sorted THEN 10 * Max(d1, d2) + Min(d1, d2)
                                     ELSE 10 * d1 + d2>>]_vars

\* C11 witness: a d66u whose first die is the smaller, rolled while the
\* configuration file says false
C11_Witness ==
    /\ single.fn = "roll" /\ single.done /\ single.out.result.kind = "ok"
    /\ single.out.result.dice_type = "D66_UNORDERED"
    /\ configFile.exists /\ "dice" \in DOMAIN configFile.data
    /\ ~configFile.data.dice.d66_unordered
    /\ single.out.result.individual_rolls[1].result
         < single.out.result.individual_rolls[2].result
    /\ single.out.result.d66_composed[1] % 10
         = single.out.result.individual_rolls[1].result

(***************************************************************************)
(* Advantage on a d66                                                       *)
(***************************************************************************)
\* C12: a d66 rolled with ADVANTAGE or DISADVANTAGE draws the same two dice
\* and returns the same dice, composed value, total and breakdown as the same
\* roll with NONE from the same seed and configuration, and records the mode
\* it was given.
C12_D66IgnoresAdvantage ==
    [][D66RollStep =>
          \E plain \in {DiceParser_roll(Random(single.input.seed, 0),
                                        single.input.expression, "NONE",
                                        configFile, DEFAULT_CONFIG)} :
              LET res == single'.out.result
              IN /\ res.individual_rolls = plain.out.individual_rolls
                 /\ res.d66_composed = plain.out.d66_composed
                 /\ res.total = plain.out.total
                 /\ res.breakdown = plain.out.breakdown
                 /\ res.advantage = single.input.advantage
                 /\ single'.out.rng = plain.rng
                 /\ configFile' = plain.file]_vars

\* C12 witness: a d66 rolled with DISADVANTAGE, two dice drawn
C12_Witness ==
    /\ single.fn = "roll" /\ single.done /\ single.out.result.kind = "ok"
    /\ single.out.result.dice_type = "D66"
    /\ single.input.advantage = "DISADVANTAGE"
    /\ single.out.result.advantage = "DISADVANTAGE"
    /\ single.out.rng.draws = 2
    /\ single.out.result.individual_rolls[1].result
         # single.out.result.individual_rolls[2].result

(***************************************************************************)
(* What a standard expression parses to                                     *)
(***************************************************************************)
\* the number a run of decimal digits writes
RECURSIVE Written(_)
Written(ds) ==
    IF ds = <<>> THEN 0
    ELSE 10 * Written(SubSeq(ds, 1, Len(ds) - 1))
         + (CHOOSE v \in 0..9 : DigitChar(v) = ds[Len(ds)])

\* the number +N or -N writes, 0 when nothing is written
WrittenModifier(s) ==
    IF s = <<>> THEN 0
    ELSE IF s[1] = "-" THEN 0 - Written(Tail(s)) ELSE Written(Tail(s))

LowerText(t) == [i \in 1..Len(t) |-> Lower(t[i])]

UpperText(t) ==
    [i \in 1..Len(t) |-> CASE t[i] = "d" -> "D" [] t[i] = "u" -> "U" [] OTHER -> t[i]]

\* the request a parse returned, or its failure
Request(out) ==
    IF out.kind = "ok" THEN <<out.dice_type, out.params>> ELSE <<out.kind>>

\* the request asks for dice no larger than one word of the random source
Drawable(out) == out.dice_type = "STANDARD" => out.params.size <= 2^WordBits

\* the total DiceParser(seed).roll(text) returns, or its failure
SeededTotal(text, seed) ==
    \* the parser is fresh and no configuration file exists
    Bind(DiceParser_roll(Random(seed, 0), text, "NONE", NoFile, InitialDefaultConfig),
         LAMBDA r : IF r.out.kind = "ok" THEN <<r.out.total>> ELSE <<r.out.kind>>)

\* C13: a text that once trimmed is [count]d<size>[+N|-N], with the count
\* omitted or at least 1 and the size at least 1, and is not a d66 form, parses
\* to STANDARD with the written count (1 when omitted), size and modifier (0
\* when omitted); and a text parses to the same request, and rolls the same
\* total from the same seed, in lower and in upper case (totals compared for
\* die sizes up to 2^WordBits).
C13_StandardParse ==
    Parsed =>
        /\ \A u \in Trims(single.input) :
           \A i \in 1..Len(u) : \A j \in (i + 1)..Len(u) :
              LET count == IF i = 1 THEN 1 ELSE Written(SubSeq(u, 1, i - 1))
                  size == Written(SubSeq(u, i + 1, j))
              IN (StdSplit(u, i, j) /\ ~InD66Grammar(u) /\ count >= 1 /\ size >= 1)
                 => /\ single.out.kind = "ok"
                    /\ single.out.dice_type = "STANDARD"
                    /\ single.out.params =
                          [count |-> count, size |-> size,
                           modifier |-> WrittenModifier(SubSeq(u, j + 1, Len(u)))]
        /\ Request(parse_expression(LowerText(single.input))) = Request(single.out)
        /\ Request(parse_expression(UpperText(single.input))) = Request(single.out)
        /\ (single.out.kind = "ok" /\ Drawable(single.out)) =>
              \A seed \in Seeds :
                  /\ SeededTotal(LowerText(single.input), seed)
                       = SeededTotal(single.input, seed)
                  /\ SeededTotal(UpperText(single.input), seed)
                       = SeededTotal(single.input, seed)

\* C13 witness: " 2D6-1 " was parsed to two dice of size 6 with modifier -1
C13_Witness ==
    /\ Parsed
    /\ single.input = <<" ", "2", "D", "6", "-", "1", " ">>
    /\ single.out.kind = "ok"
    /\ single.out.dice_type = "STANDARD"
    /\ single.out.params = [count |-> 2, size |-> 6, modifier |-> 0 - 1]

(***************************************************************************)
(* d66 before the standard form                                             *)
(***************************************************************************)
\* C14: a text that once trimmed has the d66 form parses to D66, or to
\* D66_UNORDERED when the u is written, with the written modifier (0 when
\* omitted) and no count or size, also when the text has the standard form as
\* well (a 66-sided die); every parse returns one of the three kinds.
C14_D66First ==
    Parsed =>
        /\ \A u \in Trims(single.input) :
              InD66Grammar(u) =>
                 LET hasU == Len(u) >= 4 /\ u[4] \in {"u", "U"}
                     rest == SubSeq(u, IF hasU THEN 5 ELSE 4, Len(u))
                 IN /\ single.out.kind = "ok"
                    /\ single.out.dice_type = IF hasU THEN "D66_UNORDERED" ELSE "D66"
                    /\ single.out.params = [modifier |-> WrittenModifier(rest)]
                    /\ InStdGrammar(u) => single.out.dice_type = "D66"
        /\ single.out.kind = "ok" =>
              single.out.dice_type \in {"STANDARD", "D66", "D66_UNORDERED"}

\* C14 witness: d66+3, which is also one 66-sided die plus 3, was parsed to D66
C14_Witness ==
    /\ Parsed
    /\ single.input = <<"d", "6", "6", "+", "3">>
    /\ InStdGrammar(single.input)
    /\ single.out.kind = "ok"
    /\ single.out.dice_type = "D66"
    /\ single.out.params.modifier = 3

(***************************************************************************)
(* The dice a standard roll records                                         *)
(***************************************************************************)
\* C15: a successful standard roll of count dice of size S records exactly
\* count dice, each of size S with a result in 1..S; with ADVANTAGE or
\* DISADVANTAGE 2*count dice are drawn and the one recorded at each index is
\* the original or the extra die of that index, never both.
C15_SelectedDice ==
    (Rolled /\ single.out.result.dice_type = "STANDARD") =>
        \A c \in 1..MaxCount, z \in Sizes, m \in (0 - MaxMod)..MaxMod :
            single.input.expression = StdText(c, z, m) =>
                \E first \in {DiceParser_roll_dice(Random(single.input.seed, 0), c, z)} :
                \E extra \in {DiceParser_roll_dice(first.rng, c, z)} :
                    LET rolls == single.out.result.individual_rolls
                        plain == single.input.advantage = "NONE"
                    IN /\ Len(rolls) = c
                       /\ \A i \in 1..c : /\ rolls[i].die_size = z
                                          /\ rolls[i].result \in 1..z
                                          /\ \/ rolls[i] = first.rolls[i]
                                             \/ ~plain /\ rolls[i] = extra.rolls[i]
                       /\ single.out.rng.draws = IF plain THEN c ELSE 2 * c

\* C15 witness: three d20 rolled with advantage, six dice drawn, three
\* recorded, one of them an extra die
C15_Witness ==
    /\ Rolled
    /\ single.input.expression = <<"3", "d", "2", "0">>
    /\ single.input.advantage = "ADVANTAGE"
    /\ single.out.rng.draws = 6
    /\ Len(single.out.result.individual_rolls) = 3
    /\ single.out.result.individual_rolls
         # DiceParser_roll_dice(Random(single.input.seed, 0), 3, 20).rolls

(***************************************************************************)
(* One call of the comma-list roll                                          *)
(***************************************************************************)
\* the terms of a list: count, sides, modifier
ListTerms ==
    [count : 1..MaxCount, sides : Sizes, modifier : {0 - MaxMod, 0, 1}]

\* a term as written: plainly, or in upper case between blanks with a count
\* of 1 left out
TermText(t, spaced) ==
    IF ~spaced THEN StdText(t.count, t.sides, t.modifier)
    ELSE <<" ">> \o (IF t.count = 1 THEN <<>> ELSE IntToStr(t.count)) \o <<"D">>
         \o IntToStr(t.sides)
         \o (IF t.modifier = 0 THEN <<>> ELSE Tail(ModifierText(t.modifier)))
         \o <<" ">>

\* one or two terms as written: joined by a comma, or with an empty part
\* between them
ListText(terms, spaced) ==
    IF Len(terms) = 1 THEN TermText(terms[1], spaced)
    ELSE TermText(terms[1], spaced)
         \o (IF spaced THEN <<",", " ", ",">> ELSE <<",">>)
         \o TermText(terms[2], spaced)

\* the lists rolled; terms is kept beside the text for the claims only
ListInputs ==
    {[expression |-> ListText(ts, sp), terms |-> ts, seed |-> s] :
        ts \in [1..1 -> ListTerms] \cup [1..2 -> ListTerms],
        sp \in BOOLEAN, s \in Seeds}

InitList ==
    /\ configFile = NoFile
    /\ DEFAULT_CONFIG = InitialDefaultConfig
    /\ Quiet
    /\ single \in {Pending("cetools.dice.roll", i) : i \in ListInputs}

\* cetools.dice.roll(expression, seed=seed)
ListRollOnce ==
    /\ single.fn = "cetools.dice.roll"
    /\ ~single.done
    /\ \E r \in {roll(single.input.expression, single.input.seed, 0)} :
          single' = [single EXCEPT !.done = TRUE,
                                   !.out = [result |-> r.out, draws |-> r.draws]]
    /\ UNCHANGED <<configFile, DEFAULT_CONFIG, parsers, trace, calls, characters, files, heap>>

NextList == ListRollOnce

SpecList == InitList /\ [][NextList]_vars

ListRolled == single.fn = "cetools.dice.roll" /\ single.done

\* the dice of the terms drawn one term after the other from rng
RECURSIVE DrawnInOrder(_, _)
DrawnInOrder(rng, terms) ==
    IF terms = <<>> THEN <<>>
    ELSE \* the head term draws first, the rest continue from where it stopped
         LET head == DiceParser_roll_dice(rng, terms[1].count, terms[1].sides)
         IN [k \in 1..Len(head.rolls) |-> head.rolls[k].result]
            \o DrawnInOrder(head.rng, Tail(terms))

RECURSIVE SumSeq(_)
SumSeq(s) == IF s = <<>> THEN 0 ELSE s[1] + SumSeq(Tail(s))

\* the term the k-th entry of the breakdown belongs to
TermOf(terms, k) ==
    IF k <= terms[1].count THEN terms[1] ELSE terms[2]

\* C16: for a list of valid terms the comma-list roll returns a breakdown of
\* exactly the dice drawn, term after term in draw order, as many as the
\* counts add up to and each within 1..sides of its term, and a total equal
\* to the sum of the breakdown plus the sum of the modifiers.
C16_ListBreakdown ==
    ListRolled =>
        LET res == single.out.result
            terms == single.input.terms
            counts == SumSeq([k \in 1..Len(terms) |-> terms[k].count])
            modifiers == SumSeq([k \in 1..Len(terms) |-> terms[k].modifier])
        IN /\ res.kind = "ok"
           /\ Len(res.breakdown) = counts
           /\ single.out.draws = counts
           /\ \A k \in 1..Len(res.breakdown) :
                 res.breakdown[k] \in 1..TermOf(terms, k).sides
           /\ res.breakdown = DrawnInOrder(Random(single.input.seed, 0), terms)
           /\ res.total = SumSeq(res.breakdown) + modifiers

\* C16 witness: " 2D6-2 , ,D20+1 " rolled, three dice in the breakdown and a
\* total one less than their sum
C16_Witness ==
    /\ ListRolled
    /\ single.input.expression
         = <<" ", "2", "D", "6", "-", "2", " ", ",", " ", ",",
             " ", "D", "2", "0", "+", "1", " ">>
    /\ single.out.result.kind = "ok"
    /\ Len(single.out.result.breakdown) = 3
    /\ single.out.result.total = SumSeq(single.out.result.breakdown) - 1

(***************************************************************************)
(* cetools/core/utils.py: pseudo-hexadecimal notation                       *)
(***************************************************************************)
UpperCase == <<"A", "B", "C", "D", "E", "F", "G", "H", "I", "J", "K", "L", "M", "N", "O", "P", "Q", "R", "S", "T", "U", "V", "W", "X", "Y", "Z">>

LowerCase == <<"a", "b", "c", "d", "e", "f", "g", "h", "i", "j", "k", "l", "m", "n", "o", "p", "q", "r", "s", "t", "u", "v", "w", "x", "y", "z">>

\* str.upper() on one character and on a text
Upper(c) ==
    IF \E i \in 1..26 : LowerCase[i] = c
    THEN UpperCase[CHOOSE i \in 1..26 : LowerCase[i] = c]
    ELSE c

UpperStr(t) == [i \in 1..Len(t) |-> Upper(t[i])]

\* str.isalpha() on one character
IsAlpha(c) == \E i \in 1..26 : UpperCase[i] = c \/ LowerCase[i] = c

\* the table with the whole alphabet, I and O included
DEC_TO_PSEUDO_HEX_alphabet ==
    [k \in 0..33 |-> IF k <= 9 THEN DigitChar(k)
                     ELSE IF k <= 35 THEN UpperCase[k - 9] ELSE "?"]

\* DEC_TO_PSEUDO_HEX = {0: "0", ..., 9: "9", 10: "A", ..., 33: "Z"}
DEC_TO_PSEUDO_HEX ==
    [k \in 0..33 |->
        <<"0", "1", "2", "3", "4", "5", "6", "7", "8", "9", "A", "B", "C", "D", "E", "F", "G", "H", "J", "K", "L", "M", "N", "P", "Q", "R", "S", "T", "U", "V", "W", "X", "Y", "Z">>[k + 1]]

\* {v: k for k, v in DEC_TO_PSEUDO_HEX.items() if isinstance(v, str) and v.isalpha()}
PSEUDO_HEX_TO_DEC ==
    [v \in {DEC_TO_PSEUDO_HEX[k] : k \in {x \in DOMAIN DEC_TO_PSEUDO_HEX :
                                            IsAlpha(DEC_TO_PSEUDO_HEX[x])}}
        |-> CHOOSE k \in DOMAIN DEC_TO_PSEUDO_HEX :
               /\ DEC_TO_PSEUDO_HEX[k] = v
               /\ \A j \in DOMAIN DEC_TO_PSEUDO_HEX : DEC_TO_PSEUDO_HEX[j] = v => j <= k]

\* int(text): blanks around an optional sign and decimal digits, or ValueError
PyInt(text, message) ==
    Bind(Strip(text), LAMBDA t :
        IF t # <<>> /\ AllDigits(IF t[1] \in Signs THEN Tail(t) ELSE t)
        THEN [kind |-> "ok", value |-> ToInt(t)]
        ELSE Raise("ValueError", message))

dec_to_pseudo_hex(value) ==
    IF value < 0
    THEN Raise("ValueError", Lit("Cannot convert negative values to pseudo-hex"))
    ELSE IF value \in DOMAIN DEC_TO_PSEUDO_HEX
    THEN [kind |-> "ok", value |-> <<DEC_TO_PSEUDO_HEX[value]>>]
    ELSE [kind |-> "ok", value |-> IntToStr(value)]

pseudo_hex_to_dec(text) ==
    Bind(UpperStr(text), LAMBDA value :
        IF Len(value) = 1 /\ value[1] \in DOMAIN PSEUDO_HEX_TO_DEC
        THEN [kind |-> "ok", value |-> PSEUDO_HEX_TO_DEC[value[1]]]
        ELSE PyInt(value, Lit("Invalid pseudo-hex value: ") \o value))

\* the integers converted
HexValues == (0 - 2)..MaxValue

\* the texts converted: every letter in both cases, and those of the tests
HexTexts ==
    {<<UpperCase[i]>> : i \in 1..26} \cup {<<LowerCase[i]>> : i \in 1..26}
    \cup {<<DigitChar(k)>> : k \in 0..9}
    \cup {<<"3", "4">>, <<"1", "0", "0">>, <<"1", "G">>, <<>>, <<" ", "7">>, <<"-", "1">>, <<"0", "0", "7">>}

InitHex ==
    /\ configFile = NoFile
    /\ DEFAULT_CONFIG = InitialDefaultConfig
    /\ Quiet
    /\ single \in {Pending("dec_to_pseudo_hex", n) : n \in HexValues}
                  \cup {Pending("pseudo_hex_to_dec", t) : t \in HexTexts}

\* dec_to_pseudo_hex(n)
DecToPseudoHex ==
    /\ single.fn = "dec_to_pseudo_hex"
    /\ ~single.done
    /\ single' = [single EXCEPT !.done = TRUE, !.out = dec_to_pseudo_hex(single.input)]
    /\ UNCHANGED <<configFile, DEFAULT_CONFIG, parsers, trace, calls, characters, files, heap>>

\* pseudo_hex_to_dec(text), on a text of its own or on what dec_to_pseudo_hex
\* returned (kept in back)
PseudoHexToDec ==
    /\ \/ /\ single.fn = "pseudo_hex_to_dec"
          /\ ~single.done
          /\ single' = [single EXCEPT !.done = TRUE,
                                      !.out = pseudo_hex_to_dec(single.input)]
       \/ /\ single.fn = "dec_to_pseudo_hex"
          /\ single.done
          /\ single.out.kind = "ok"
          /\ "back" \notin DOMAIN single.out
          /\ single' = [single EXCEPT
                           !.out = [kind |-> "ok", value |-> single.out.value,
                                    back |-> pseudo_hex_to_dec(single.out.value)]]
    /\ UNCHANGED <<configFile, DEFAULT_CONFIG, parsers, trace, calls, characters, files, heap>>

NextHex == DecToPseudoHex \/ PseudoHexToDec

SpecHex == InitHex /\ [][NextHex]_vars

\* the letters A-Z without I and O
HexLetters == SelectSeq(UpperCase, LAMBDA c : c \notin {"I", "O"})

\* C17: for n >= 0 dec_to_pseudo_hex(n) is the digit of n for 0..9, the
\* (n-9)th of the letters A-Z without I and O for 10..33 and the decimal
\* string of n from 34 on, never contains I or O, and pseudo_hex_to_dec takes
\* it back to n.
C17_PseudoHexRoundTrip ==
    (single.fn = "dec_to_pseudo_hex" /\ single.done /\ single.input >= 0) =>
        /\ single.out.kind = "ok"
        /\ single.input <= 9 => single.out.value = <<DigitChar(single.input)>>
        /\ single.input \in 10..33 => single.out.value = <<HexLetters[single.input - 9]>>
        /\ single.input >= 34 => /\ AllDigits(single.out.value)
                                 /\ single.out.value[1] # "0"
                                 /\ Written(single.out.value) = single.input
        /\ \A i \in 1..Len(single.out.value) : single.out.value[i] \notin {"I", "O"}
        /\ "back" \in DOMAIN single.out =>
              single.out.back = [kind |-> "ok", value |-> single.input]

\* C17 witness: 18 became J, past the missing I, and J became 18 again
C17_Witness ==
    /\ single.fn = "dec_to_pseudo_hex" /\ single.done
    /\ single.input = 18
    /\ single.out.value = <<"J">>
    /\ "back" \in DOMAIN single.out
    /\ single.out.back.value = 18

(***************************************************************************)
(* cetools/core/models.py: Character.add_skill and get_skill_level          *)
(* An Optional[str] is <<>> for None and <<text>> for a text.               *)
(***************************************************************************)
\* str.lower() on one character and on a text
ToLower(c) ==
    IF \E i \in 1..26 : UpperCase[i] = c
    THEN LowerCase[CHOOSE i \in 1..26 : UpperCase[i] = c]
    ELSE c

LowerStr(t) == [i \in 1..Len(t) |-> ToLower(t[i])]

\* bool(x) of an Optional[str]: None and "" are false
Truthy(opt) == opt # <<>> /\ opt[1] # <<>>

\* Skill(name=name, level=level, specialty=specialty), level: ge=-3, le=5
Skill(name, level, specialty) ==
    IF level > 5
    THEN Raise("ValidationError", Lit("Input should be less than or equal to 5"))
    ELSE IF level < 0 - 3
    THEN Raise("ValidationError", Lit("Input should be greater than or equal to -3"))
    ELSE [kind |-> "ok", name |-> name, level |-> level, specialty |-> specialty]

\* the index of the first skill the loop accepts, 0 when it accepts none;
\* matches[i] tells whether the loop's condition holds of the i-th skill
FirstSkill(matches) ==
    IF \E i \in 1..Len(matches) : matches[i]
    THEN CHOOSE i \in 1..Len(matches) :
            /\ matches[i]
            /\ \A j \in 1..(i - 1) : ~matches[j]
    ELSE 0

\* Character.get_skill_level(skill_name, specialty) on the list skills
get_skill_level(skills, skill_name, specialty) ==
    Bind(FirstSkill([k \in 1..Len(skills) |->
            /\ LowerStr(skills[k].name) = LowerStr(skill_name)
            /\ \/ specialty = <<>>
               \/ /\ Truthy(skills[k].specialty)
                  /\ LowerStr(skills[k].specialty[1]) = LowerStr(specialty[1])]),
         LAMBDA i :
        IF i = 0 THEN 0 - 3 ELSE skills[i].level)

\* Character.add_skill(name, level, specialty): the list afterwards, or the
\* error of the Skill constructor
add_skill(skills, name, level, specialty) ==
    Bind(FirstSkill([k \in 1..Len(skills) |->
            /\ LowerStr(skills[k].name) = LowerStr(name)
            /\ skills[k].specialty = specialty]),
         LAMBDA i :
        IF i # 0
        THEN [kind |-> "ok",
              skills |-> [skills EXCEPT ![i].level = Max(skills[i].level, level)]]
        ELSE Bind(Skill(name, level, specialty), LAMBDA skill :
                IF skill.kind # "ok" THEN skill
                ELSE [kind |-> "ok",
                      skills |-> Append(skills, [name |-> name, level |-> level,
                                                 specialty |-> specialty])]))

CharacterIds == {"c1"}

SkillNames == {<<"P", "i", "l", "o", "t">>, <<"p", "i", "l", "o", "t">>}

SkillLevels == {1, 3}

Specialties == {<<>>, <<<<"R", "i", "f", "l", "e">>>>, << <<>> >>}

\* Character(name=..., attributes=...) with its empty lists
InitCharacters ==
    /\ configFile = NoFile
    /\ DEFAULT_CONFIG = InitialDefaultConfig
    /\ parsers = <<>>
    /\ trace = <<>>
    /\ calls = <<>>
    /\ single = NoSingle
    /\ characters = [c \in CharacterIds |-> [skills |-> <<>>, equipment |-> <<>>]]
    /\ files = NoFiles
    /\ heap = <<>>

\* character.add_skill(name, level, specialty)
AddSkill(c, name, level, specialty) ==
    /\ c \in DOMAIN characters
    /\ Len(calls) < MaxCalls
    /\ \E r \in {add_skill(characters[c].skills, name, level, specialty)} :
          /\ characters' = IF r.kind = "ok"
                           THEN [characters EXCEPT ![c].skills = r.skills]
                           ELSE characters
          /\ calls' = Append(calls, [api |-> "add_skill", character |-> c,
                                     name |-> name, level |-> level,
                                     specialty |-> specialty, kind |-> r.kind])
    /\ single' = NoSingle
    /\ UNCHANGED <<configFile, DEFAULT_CONFIG, parsers, trace, files, heap>>

\* character.get_skill_level(name, specialty), asked after the calls made so far
GetSkillLevel(c, name, specialty) ==
    /\ c \in DOMAIN characters
    /\ single' = [fn |-> "get_skill_level",
                  input |-> [character |-> c, name |-> name, specialty |-> specialty,
                             after |-> Len(calls)],
                  done |-> TRUE,
                  out |-> get_skill_level(characters[c].skills, name, specialty)]
    /\ UNCHANGED <<configFile, DEFAULT_CONFIG, parsers, trace, calls, characters, files, heap>>

NextCharacters ==
    \/ \E c \in CharacterIds, name \in SkillNames, level \in SkillLevels,
          specialty \in Specialties : AddSkill(c, name, level, specialty)
    \/ \E c \in CharacterIds, name \in SkillNames, specialty \in Specialties :
          GetSkillLevel(c, name, specialty)

SpecCharacters == InitCharacters /\ [][NextCharacters]_vars

\* the levels added, by calls that returned, for the skill asked about
LevelsAdded ==
    {calls[i].level : i \in {k \in 1..single.input.after :
        /\ calls[k].api = "add_skill"
        /\ calls[k].kind = "ok"
        /\ calls[k].character = single.input.character
        /\ LowerStr(calls[k].name) = LowerStr(single.input.name)
        /\ calls[k].specialty = single.input.specialty}}

\* C18 as stated: get_skill_level(name, specialty) returns the highest level
\* added for that name with that specialty, -3 when none was added, and the
\* list holds no skill twice.
C18_HighestLevelAdded ==
    /\ single.fn = "get_skill_level" =>
          single.out = IF LevelsAdded = {} THEN 0 - 3
                       ELSE CHOOSE l \in LevelsAdded : \A x \in LevelsAdded : x <= l
    /\ \A c \in DOMAIN characters :
       \A i \in 1..Len(characters[c].skills), j \in 1..Len(characters[c].skills) :
          (/\ LowerStr(characters[c].skills[i].name) = LowerStr(characters[c].skills[j].name)
           /\ characters[c].skills[i].specialty = characters[c].skills[j].specialty)
          => i = j

(***************************************************************************)
(* src/cetools/characters.py: generate                                      *)
(* A template is a function from its keys to their values; an Optional      *)
(* field of the character is <<>> for None and <<v>> for v.                 *)
(***************************************************************************)
\* _roll_stat(seed, expr): roll(expr, seed=seed).total
roll_stat(seed, expr, entropy) == roll(expr, seed, entropy).out.total

\* seed + k if seed is not None else None
SeedPlus(seed, k) == IF seed = <<>> THEN <<>> ELSE <<seed[1] + k>>

\* template.get(key) or _roll_stat(seed, expr): the roll is made when the key
\* is absent or its value is false (0)
GetOrRoll(template, key, seed, expr, entropy) ==
    IF key \in DOMAIN template /\ template[key] # 0
    THEN template[key]
    ELSE roll_stat(seed, expr, entropy)

\* template.get(key), None when absent
GetOptional(template, key) ==
    IF key \in DOMAIN template THEN <<template[key]>> ELSE <<>>

\* template.get(key, {})
GetDict(template, key) ==
    IF key \in DOMAIN template THEN template[key] ELSE <<>>

\* generate(seed, template); entropies[k] seeds the k-th roll when seed is None
generate(seed, template, entropies) ==
    [kind |-> "ok",
     name |-> GetOptional(template, "name"),
     strength |-> GetOrRoll(template, "strength", seed, <<"3", "d", "6">>, entropies[1]),
     dexterity |-> GetOrRoll(template, "dexterity", SeedPlus(seed, 1), <<"3", "d", "6">>,
                             entropies[2]),
     endurance |-> GetOrRoll(template, "endurance", SeedPlus(seed, 2), <<"3", "d", "6">>,
                             entropies[3]),
     intelligence |-> GetOrRoll(template, "intelligence", SeedPlus(seed, 3), <<"3", "d", "6">>,
                                entropies[4]),
     education |-> GetOrRoll(template, "education", SeedPlus(seed, 4), <<"2", "d", "6", "+", "6">>,
                             entropies[5]),
     social_standing |-> GetOrRoll(template, "social_standing", SeedPlus(seed, 5),
                                   <<"2", "d", "6", "+", "6">>, entropies[6]),
     psionic_strength |-> GetOptional(template, "psionic_strength"),
     careers |-> GetDict(template, "careers"),
     skills |-> GetDict(template, "skills")]

\* the values a template may give each key
TemplateValues ==
    [name |-> {<<"A", "l", "i", "c", "e">>},
     strength |-> {0, 12},
     dexterity |-> {0, 12},
     endurance |-> {9},
     intelligence |-> {9},
     education |-> {0, 12},
     social_standing |-> {9},
     psionic_strength |-> {0, 5},
     skills |-> {[Gunnery |-> 1]}]

\* the templates ts, and each of them with key given one of its values
WithKey(ts, key) ==
    ts \cup {DictSet(t, key, v) : t \in ts, v \in TemplateValues[key]}

\* every template over some of the keys
Templates ==
    WithKey(WithKey(WithKey(WithKey(WithKey(WithKey(WithKey(WithKey(WithKey(
        {<<>>}, "name"), "strength"), "dexterity"), "endurance"), "intelligence"),
        "education"), "social_standing"), "psionic_strength"), "skills")

\* what the operating system seeds the six rolls with when seed is None
EntropyRuns ==
    {[k \in 1..6 |-> 3], [k \in 1..6 |-> 90],
     [k \in 1..6 |-> IF k % 2 = 1 THEN 3 ELSE 90]}

InitGenerate ==
    /\ configFile = NoFile
    /\ DEFAULT_CONFIG = InitialDefaultConfig
    /\ Quiet
    /\ single \in {Pending("generate", [seed |-> s, template |-> t]) :
                      s \in OptSeeds, t \in Templates}

\* generate(seed=seed, template=template)
Generate ==
    /\ single.fn = "generate"
    /\ ~single.done
    /\ \E entropies \in EntropyRuns :
          single' = [single EXCEPT
                        !.done = TRUE,
                        !.out = generate(single.input.seed, single.input.template,
                                         entropies)]
    /\ UNCHANGED <<configFile, DEFAULT_CONFIG, parsers, trace, calls, characters, files, heap>>

NextGenerate == Generate

SpecGenerate == InitGenerate /\ [][NextGenerate]_vars

OptionalFields == {"name", "psionic_strength"}

\* C19 as stated: the generated character carries, for every key of the
\* template, the template's value, an attribute given as 0 included.
C19_TemplateOverrides ==
    (single.fn = "generate" /\ single.done) =>
        /\ single.out.kind = "ok"
        /\ \A key \in DOMAIN single.input.template :
              single.out[key] = IF key \in OptionalFields
                                THEN <<single.input.template[key]>>
                                ELSE single.input.template[key]

\* ---------------------------------------------------------------------
\* Saving and loading files (cetools.core.serialization).
\*
\* A path is [parent, name], name being the text of its last component.
\* A saved text is kept by what it holds: [format |-> "json", single, items]
\* for a JSON object (single) or JSON array, [format |-> "csv", rows] for a
\* CSV text, whose rows are empty for the text "".  The model class has a
\* required field, so a text of the other format never validates.
\* ---------------------------------------------------------------------

\* str.rfind(".") on the name, 0 when there is no dot
LastDot(name) ==
    IF \E k \in 1..Len(name) : name[k] = "."
    THEN CHOOSE k \in 1..Len(name) :
             name[k] = "." /\ \A j \in (k + 1)..Len(name) : name[j] # "."
    ELSE 0

\* pathlib's PurePath.suffix: the last dot of the name and what follows it,
\* empty when the dot is the first or the last character
PathSuffix(path) ==
    Bind(LastDot(path.name),
         LAMBDA i : IF 1 < i /\ i < Len(path.name)
                    THEN SubSeq(path.name, i, Len(path.name))
                    ELSE <<>>)

\* the auto branch shared by save_to_file and load_from_file
AutoDetect(path, format_type) ==
    IF format_type # "auto" THEN format_type
    ELSE Bind(LowerStr(PathSuffix(path)),
              LAMBDA suffix :
                  IF suffix = <<".", "j", "s", "o", "n">> THEN "json"
                  ELSE IF suffix = <<".", "c", "s", "v">> THEN "csv"
                  ELSE "undetected")

\* a single model, or a sequence of models
OneModel(m) == [single |-> TRUE, items |-> <<m>>]

ManyModels(ms) == [single |-> FALSE, items |-> ms]

\* to_json(obj) for a model, json.dumps([...]) for a sequence
JsonContent(obj) == [format |-> "json", single |-> obj.single, items |-> obj.items]

\* to_csv([obj]) for a model, to_csv(obj) for a sequence ("" when empty)
CsvContent(obj) == [format |-> "csv", rows |-> obj.items]

WriteFile(fs, path, content) ==
    [dirs |-> fs.dirs \cup {path.parent},
     data |-> [p \in DOMAIN fs.data \cup {path} |->
                  IF p = path THEN content ELSE fs.data[p]]]

Raised(kind, fs) == [kind |-> kind, value |-> <<>>, files |-> fs]

\* save_to_file(obj, file_path, format_type): the outcome and the file
\* system it leaves
save_to_file(fs, obj, file_path, format_type) ==
    Bind(AutoDetect(file_path, format_type),
         LAMBDA format :
             IF format = "undetected" THEN Raised("ValueError", fs)
             ELSE IF format = "json"
             THEN Raised("ok", WriteFile(fs, file_path, JsonContent(obj)))
             ELSE IF format = "csv"
             THEN Raised("ok", WriteFile(fs, file_path, CsvContent(obj)))
             \* the ValueError of the else branch is raised inside the try
             \* and leaves as SerializationError, the directory made
             ELSE Raised("SerializationError",
                         [fs EXCEPT !.dirs = @ \cup {file_path.parent}]))

\* load_from_file(file_path, model_class, format_type)
load_from_file(fs, file_path, format_type) ==
    IF file_path \notin DOMAIN fs.data THEN Raised("FileNotFoundError", fs)
    ELSE Bind(AutoDetect(file_path, format_type),
         LAMBDA format :
             LET content == fs.data[file_path] IN
             IF format = "undetected" THEN Raised("ValueError", fs)
             ELSE IF format = "json"
             THEN IF content.format # "json" THEN Raised("SerializationError", fs)
                  ELSE [kind |-> "ok", files |-> fs,
                        value |-> IF content.single THEN OneModel(content.items[1])
                                  ELSE ManyModels(content.items)]
             ELSE IF format = "csv"
             THEN IF content.format # "csv" \/ content.rows = <<>>
                  THEN Raised("SerializationError", fs)
                  ELSE [kind |-> "ok", files |-> fs,
                        value |-> IF Len(content.rows) = 1
                                  THEN OneModel(content.rows[1])
                                  ELSE ManyModels(content.rows)]
             \* the ValueError of the else branch is raised inside the try
             \* and leaves as SerializationError
             ELSE Raised("SerializationError", fs))

FilePaths ==
    {[parent |-> "out", name |-> n] :
        n \in {<<"a", ".", "j", "s", "o", "n">>, <<"b", ".", "C", "S", "V">>,
               <<"c", ".", "t", "x", "t">>}}

FormatTypes == {"auto", "json", "csv", "xml", "JSON"}

SavedObjects == {OneModel("m1"), ManyModels(<<"m1", "m2">>), ManyModels(<<>>)}

InitFiles ==
    /\ configFile = NoFile
    /\ DEFAULT_CONFIG = InitialDefaultConfig
    /\ parsers = <<>> /\ trace = <<>> /\ calls = <<>> /\ characters = <<>>
    /\ files = NoFiles
    /\ heap = <<>>
    /\ single = NoSingle

\* save_to_file(obj, file_path, format_type)
SaveToFile(obj, file_path, format_type) ==
    /\ \E r \in {save_to_file(files, obj, file_path, format_type)} :
          /\ files' = r.files
          /\ single' = [fn |-> "save_to_file", done |-> TRUE,
                        input |-> [obj |-> obj, file_path |-> file_path,
                                   format_type |-> format_type,
                                   exists |-> file_path \in DOMAIN files.data],
                        out |-> [kind |-> r.kind, value |-> r.value]]
    /\ UNCHANGED <<configFile, DEFAULT_CONFIG, parsers, trace, calls, characters, heap>>

\* load_from_file(file_path, model_class, format_type)
LoadFromFile(file_path, format_type) ==
    /\ \E r \in {load_from_file(files, file_path, format_type)} :
          /\ files' = r.files
          /\ single' = [fn |-> "load_from_file", done |-> TRUE,
                        input |-> [file_path |-> file_path,
                                   format_type |-> format_type,
                                   exists |-> file_path \in DOMAIN files.data],
                        out |-> [kind |-> r.kind, value |-> r.value]]
    /\ UNCHANGED <<configFile, DEFAULT_CONFIG, parsers, trace, calls, characters, heap>>

NextFiles ==
    \/ \E obj \in SavedObjects, p \in FilePaths, f \in FormatTypes :
          SaveToFile(obj, p, f)
    \/ \E p \in FilePaths, f \in FormatTypes : LoadFromFile(p, f)

SpecFiles == InitFiles /\ [][NextFiles]_vars

\* format_type is invalid: auto with a suffix that is neither .json nor
\* .csv, or an explicit format_type other than json and csv
InvalidFormat(input) ==
    AutoDetect(input.file_path, input.format_type) \notin {"json", "csv"}

\* C20 as stated: save_to_file, and load_from_file of a file that exists,
\* raise ValueError whenever format_type is invalid, be it auto that cannot
\* detect the format from the suffix or an explicit format_type other than
\* json and csv.
C20_InvalidFormatValueError ==
    /\ (single.fn = "save_to_file" /\ InvalidFormat(single.input))
          => single.out.kind = "ValueError"
    /\ (single.fn = "load_from_file" /\ single.input.exists
            /\ InvalidFormat(single.input))
          => single.out.kind = "ValueError"

\* the part of C20 the code does keep: auto with an undetectable suffix
\* raises ValueError and leaves the file system as it was
C20_AutoUndetected ==
    (single.fn \in {"save_to_file", "load_from_file"}
        /\ single.input.format_type = "auto"
        /\ (single.fn = "load_from_file" => single.input.exists)
        /\ InvalidFormat(single.input))
      => single.out.kind = "ValueError"

(***************************************************************************)
(* Draws a successful roll takes from the random source                     *)
(***************************************************************************)
\* C21: a successful roll makes a fixed number of randint draws on the
\* parser's random source: count for a standard roll with mode NONE, 2*count
\* for a standard roll with ADVANTAGE or DISADVANTAGE, and 2 for a D66 roll
\* whatever the mode, the ordering and the modifier.
C21_DrawCount ==
    Rolled =>
        /\ \A c \in 1..MaxCount, z \in Sizes, m \in (0 - MaxMod)..MaxMod :
              single.input.expression = StdText(c, z, m) =>
                  single.out.rng.draws
                    = IF single.input.advantage = "NONE" THEN c ELSE 2 * c
        /\ \A u \in BOOLEAN, m \in (0 - MaxMod)..MaxMod :
              single.input.expression = D66Text(u, m) =>
                  single.out.rng.draws = 2

\* C21 witness: 2d6 rolled with disadvantage took four draws
C21_Witness ==
    /\ Rolled
    /\ single.input.expression = <<"2", "d", "6">>
    /\ single.input.advantage = "DISADVANTAGE"
    /\ single.out.rng.draws = 4

(***************************************************************************)
(* The order of the draws under advantage                                   *)
(***************************************************************************)
\* the dice that successive randint calls yield for the listed sizes
RECURSIVE DrawSeq(_, _)
DrawSeq(rng, sizes) ==
    IF sizes = <<>> THEN <<>>
    ELSE LET r == randint(rng, sizes[1])
         IN <<DiceRoll(sizes[1], r.value)>> \o DrawSeq(r.rng, Tail(sizes))

StartsWith(text, prefix) ==
    Len(text) >= Len(prefix) /\ SubSeq(text, 1, Len(prefix)) = prefix

\* C22: under ADVANTAGE or DISADVANTAGE the originals are drawn first, index
\* by index, and the extras after them in the same index order; the all set
\* is the originals followed by the extras, 2*count dice; so with one seed
\* the originals of the advantage roll are the dice of the plain roll of the
\* same expression.
C22_DrawOrder ==
    /\ (Advantaged /\ single.input.advantage # "NONE") =>
          LET original == single.input.rolls
          IN /\ Len(single.out.all) = 2 * Len(original)
             /\ single.out.all
                  = original
                    \o DrawSeq(Random(single.input.seed, 0),
                               [k \in 1..Len(original) |-> original[k].die_size])
    /\ (Rolled /\ single.out.result.dice_type = "STANDARD"
           /\ single.input.advantage # "NONE") =>
          \A c \in 1..MaxCount, z \in Sizes, m \in (0 - MaxMod)..MaxMod :
              single.input.expression = StdText(c, z, m) =>
                  \E drawn \in {DrawSeq(Random(single.input.seed, 0),
                                        [k \in 1..(2 * c) |-> z])} :
                  \E plain \in {DiceParser_roll(Random(single.input.seed, 0),
                                                single.input.expression, "NONE",
                                                configFile, DEFAULT_CONFIG).out} :
                      /\ plain.individual_rolls = SubSeq(drawn, 1, c)
                      /\ StartsWith(single.out.result.breakdown,
                                    <<"[">> \o JoinResults(drawn) \o <<"]">>)
                      /\ \A i \in 1..c :
                            single.out.result.individual_rolls[i]
                              \in {drawn[i], drawn[c + i]}

\* C22 witness: 2d20 rolled with advantage kept an extra die, so its dice
\* differ from those of the plain roll from the same seed
C22_Witness ==
    /\ Rolled
    /\ single.input.expression = <<"2", "d", "2", "0">>
    /\ single.input.advantage = "ADVANTAGE"
    /\ single.out.result.individual_rolls
         # DrawSeq(Random(single.input.seed, 0), <<20, 20>>)

(***************************************************************************)
(* The breakdown of a d66 roll                                              *)
(***************************************************************************)
\* C23 as stated: the breakdown of a d66 roll is "d66: d1,d2" in draw order,
\* then " (sorted: s1,s2)" whenever the pair was sorted before composition,
\* by the u suffix or by the dice.d66_unordered setting, then the arrow and
\* the composed value, then the signed modifier and " = total" only when the
\* modifier is not 0; so the pair shown last before the arrow composes to the
\* composed value.
C23_D66Breakdown ==
    [][D66RollStep =>
          LET res == single'.out.result
              drawn == DiceParser_roll_dice(Random(single.input.seed, 0), 2, 6).rolls
              d1 == drawn[1].result
              d2 == drawn[2].result
              sorted == res.dice_type = "D66_UNORDERED" \/ SettingNow
              shown == IF sorted THEN <<Max(d1, d2), Min(d1, d2)>> ELSE <<d1, d2>>
          IN /\ res.breakdown
                  = <<"d", "6", "6", ":", " ">> \o IntToStr(d1) \o <<",">> \o IntToStr(d2)
                    \o (IF sorted
                        THEN <<" ", "(", "s", "o", "r", "t", "e", "d", ":", " ">>
                             \o IntToStr(shown[1]) \o <<",">> \o IntToStr(shown[2])
                             \o <<")">>
                        ELSE <<>>)
                    \o <<" ", Arrow, " ">> \o IntToStr(res.d66_composed[1])
                    \o (IF res.modifier # 0
                        THEN ModifierText(res.modifier) \o <<" ", "=", " ">>
                             \o IntToStr(res.total)
                        ELSE <<>>)
             /\ res.d66_composed = <<10 * shown[1] + shown[2]>>]_vars

(***************************************************************************)
(* The breakdown of a standard roll                                         *)
(***************************************************************************)
\* r1, r2, ... written out
RECURSIVE ResultList(_)
ResultList(rolls) ==
    IF rolls = <<>> THEN <<>>
    ELSE IntToStr(rolls[1].result)
         \o (IF Len(rolls) = 1 THEN <<>> ELSE <<",", " ">> \o ResultList(Tail(rolls)))

\* " +M" for a positive modifier, " -M" for a negative one, nothing for 0
SignedModifier(modifier) ==
    IF modifier > 0 THEN <<" ", "+">> \o NatToStr(modifier)
    ELSE IF modifier < 0 THEN <<" ", "-">> \o NatToStr(0 - modifier)
    ELSE <<>>

\* C24: the breakdown of a standard roll is "[r1, r2, ...]" of the selected
\* results under NONE, and "[all results] (adv: selected results)" or
\* "[all results] (dis: selected results)" under advantage or disadvantage,
\* followed by " +M" for a positive modifier, " -M" for a negative one and
\* nothing for modifier 0, a written +0 or -0 included, and it always ends
\* with " = <total>".
C24_StandardBreakdown ==
    (Rolled /\ single.out.result.dice_type = "STANDARD") =>
        LET res == single.out.result
            selected == res.individual_rolls
            mode == single.input.advantage
        IN \E all \in {DrawSeq(Random(single.input.seed, 0),
                               [k \in 1..(2 * Len(selected)) |-> selected[1].die_size])} :
              res.breakdown
                = (IF mode = "NONE"
                   THEN <<"[">> \o ResultList(selected) \o <<"]">>
                   ELSE <<"[">> \o ResultList(all) \o <<"]", " ", "(">>
                        \o (IF mode = "ADVANTAGE" THEN <<"a", "d", "v">>
                            ELSE <<"d", "i", "s">>)
                        \o <<":", " ">> \o ResultList(selected) \o <<")">>)
                  \o SignedModifier(res.modifier)
                  \o <<" ", "=", " ">> \o IntToStr(res.total)

\* C24 witness: 2d6 written with +0 and rolled with disadvantage shows no
\* modifier in its breakdown
C24_Witness ==
    /\ Rolled
    /\ single.input.expression = <<"2", "d", "6", "+", "0">>
    /\ single.input.advantage = "DISADVANTAGE"
    /\ single.out.result.modifier = 0
    /\ \A k \in 1..Len(single.out.result.breakdown) :
          single.out.result.breakdown[k] # "+"

(***************************************************************************)
(* Character.add_equipment (cetools.core.models)                            *)
(*                                                                          *)
(* Equipment objects live in heap under their identity; an equipment list   *)
(* holds identities, since list.append stores the object it is given and    *)
(* the models do not validate or copy on assignment.                        *)
(***************************************************************************)
\* what add_equipment compares: name, item_type and description
EquipmentKey(e) == <<e.name, e.item_type, e.description>>

\* add_equipment appending whatever it is given
add_equipment_append(list, objects, item) ==
    [equipment |-> Append(list, item), heap |-> objects]

\* Character.add_equipment(equipment) on the list of a character: the list
\* and the objects afterwards
add_equipment(list, objects, item) ==
    Bind(FirstSkill([k \in 1..Len(list) |->
            /\ objects[list[k]].name = objects[item].name
            /\ objects[list[k]].item_type = objects[item].item_type
            /\ objects[list[k]].description = objects[item].description]),
         LAMBDA i :
        IF i # 0
        THEN [equipment |-> list,
              heap |-> [objects EXCEPT
                           ![list[i]].quantity = @ + objects[item].quantity]]
        ELSE [equipment |-> Append(list, item), heap |-> objects])

EquipmentOwners == {"c1", "c2"}

\* Equipment(name="Autopistol", item_type=ItemType.WEAPON), a second one like
\* it with quantity 2, and one told apart by its description
InitialHeap ==
    [e \in {"e1", "e2", "e3"} |->
        [name |-> "Autopistol", item_type |-> "WEAPON",
         description |-> IF e = "e3" THEN <<"spare">> ELSE <<>>,
         quantity |-> IF e = "e2" THEN 2 ELSE 1]]

InitEquipment ==
    /\ configFile = NoFile
    /\ DEFAULT_CONFIG = InitialDefaultConfig
    /\ parsers = <<>> /\ trace = <<>> /\ calls = <<>> /\ files = NoFiles
    /\ single = NoSingle
    /\ characters = [c \in EquipmentOwners |-> [skills |-> <<>>, equipment |-> <<>>]]
    /\ heap = InitialHeap

\* characters[c].add_equipment(item); calls keeps what was added and the
\* quantity the item had when it was added
AddEquipment(c, item) ==
    /\ Len(calls) < MaxCalls
    /\ \E r \in {add_equipment(characters[c].equipment, heap, item)} :
          /\ characters' = [characters EXCEPT ![c].equipment = r.equipment]
          /\ heap' = r.heap
    /\ calls' = Append(calls, [fn |-> "add_equipment", character |-> c, item |-> item,
                               key |-> EquipmentKey(heap[item]),
                               quantity |-> heap[item].quantity])
    /\ UNCHANGED <<configFile, DEFAULT_CONFIG, parsers, trace, single, files>>

NextEquipment == \E c \in EquipmentOwners, item \in DOMAIN heap : AddEquipment(c, item)

SpecEquipment == InitEquipment /\ [][NextEquipment]_vars

\* every call so far was made on c
OnlyOn(c) == \A k \in 1..Len(calls) : calls[k].character = c

\* the quantities added under key, summed
RECURSIVE QuantityAdded(_, _)
QuantityAdded(log, key) ==
    IF log = <<>> THEN 0
    ELSE (IF log[1].key = key THEN log[1].quantity ELSE 0)
         + QuantityAdded(Tail(log), key)

AddEquipmentStep ==
    /\ Len(calls') = Len(calls) + 1
    /\ calls'[Len(calls')].fn = "add_equipment"

\* item is in the lists of both c and d
InBoth(item, c, d) ==
    /\ \E i \in 1..Len(characters[c].equipment) : characters[c].equipment[i] = item
    /\ \E i \in 1..Len(characters[d].equipment) : characters[d].equipment[i] = item

\* C30 as stated: once the same Equipment item has been added to two
\* characters, an add_equipment call on the first leaves the equipment list
\* of the second and every quantity in it unchanged, and leaves the quantity
\* of the item passed in unchanged.
C30_OtherCharacterUnchanged ==
    [][AddEquipmentStep =>
          LET call == calls'[Len(calls')]
              c == call.character
          IN \A d \in EquipmentOwners \ {c} :
                (\E item \in DOMAIN heap : InBoth(item, c, d)) =>
                    /\ characters'[d].equipment = characters[d].equipment
                    /\ \A i \in 1..Len(characters[d].equipment) :
                          heap'[characters[d].equipment[i]].quantity
                            = heap[characters[d].equipment[i]].quantity
                    /\ heap'[call.item].quantity = heap[call.item].quantity]_vars

(***************************************************************************)
(* _flatten_dict and _unflatten_dict (cetools.core.serialization)           *)
(*                                                                          *)
(* A nested dictionary is kept as the set of its leaves, [path, value]: the *)
(* path is the keys and list indices leading to a scalar.  A flat           *)
(* dictionary is a function from key texts to scalars.                      *)
(***************************************************************************)
\* a step of a path: a dictionary key or a list index
KeyStep(text) == [kind |-> "key", key |-> text, index |-> 0]

IndexStep(n) == [kind |-> "index", key |-> <<>>, index |-> n]

\* the key _flatten_dict builds on the way to a leaf:
\* f"{parent_key}{sep}{key}" for a key, f"{new_key}_{idx}" for a list index
RECURSIVE FlatKey(_)
FlatKey(path) ==
    IF path = <<>> THEN <<>>
    ELSE Bind(FlatKey(SubSeq(path, 1, Len(path) - 1)), LAMBDA parent_key :
            (IF parent_key = <<>> THEN <<>> ELSE parent_key \o <<"_">>)
            \o (IF path[Len(path)].kind = "key" THEN path[Len(path)].key
                ELSE NatToStr(path[Len(path)].index)))

\* _flatten_dict(data)
flatten_dict(data) ==
    [flat_key \in {FlatKey(leaf.path) : leaf \in data} |->
        (CHOOSE leaf \in data : FlatKey(leaf.path) = flat_key).value]

\* flat_key.split(sep)
RECURSIVE SplitSep(_)
SplitSep(s) ==
    Bind({i \in 1..Len(s) : s[i] = "_"}, LAMBDA seps :
        IF seps = {} THEN <<s>>
        ELSE Bind(CHOOSE i \in seps : \A j \in seps : i <= j, LAMBDA c :
                <<SubSeq(s, 1, c - 1)>> \o SplitSep(SubSeq(s, c + 1, Len(s)))))

\* str.isdigit()
IsDigit(part) == part # <<>> /\ \A i \in 1..Len(part) : part[i] \in Digits

\* the place the loop of _unflatten_dict walks to for parts[i..]: a part that
\* is a number is skipped, a part followed by a number opens a list and
\* enters the dictionary at that index, any other part is a dictionary key
RECURSIVE Walk(_, _)
Walk(parts, i) ==
    IF i > Len(parts) THEN <<>>
    ELSE IF IsDigit(parts[i]) THEN Walk(parts, i + 1)
    ELSE IF i + 1 <= Len(parts) /\ IsDigit(parts[i + 1])
    THEN <<KeyStep(parts[i]), IndexStep(DigitsToInt(parts[i + 1]))>>
         \o Walk(parts, i + 1)
    ELSE <<KeyStep(parts[i])>> \o Walk(parts, i + 1)

\* the loop splitting every flat key at every separator
unflatten_dict(flat) ==
    {[path |-> Walk(SplitSep(flat_key), 1), value |-> flat[flat_key]] :
        flat_key \in {k \in DOMAIN flat : ~IsDigit(SplitSep(k)[Len(SplitSep(k))])}}

\* field names of the models
NAME ==
    <<"n", "a", "m", "e">>

CREDITS ==
    <<"c", "r", "e", "d", "i", "t", "s">>

SOCIAL_STANDING ==
    <<"s", "o", "c", "i", "a", "l", "_", "s", "t", "a", "n", "d", "i", "n", "g">>

ATTRIBUTES ==
    <<"a", "t", "t", "r", "i", "b", "u", "t", "e", "s">>

STRENGTH ==
    <<"s", "t", "r", "e", "n", "g", "t", "h">>

EQUIPMENT ==
    <<"e", "q", "u", "i", "p", "m", "e", "n", "t">>

ITEM_TYPE ==
    <<"i", "t", "e", "m", "_", "t", "y", "p", "e">>

Leaf(path, value) == [path |-> path, value |-> value]

\* fields of Character, Attributes and Equipment: each group is the leaves
\* one field contributes to a dumped model
FieldGroups ==
    {{Leaf(<<KeyStep(NAME)>>, 1)},
     {Leaf(<<KeyStep(CREDITS)>>, 2)},
     {Leaf(<<KeyStep(SOCIAL_STANDING)>>, 3)},
     {Leaf(<<KeyStep(ATTRIBUTES), KeyStep(STRENGTH)>>, 4)},
     {Leaf(<<KeyStep(ATTRIBUTES), KeyStep(SOCIAL_STANDING)>>, 5)},
     {Leaf(<<KeyStep(EQUIPMENT), IndexStep(0), KeyStep(NAME)>>, 6)},
     {Leaf(<<KeyStep(EQUIPMENT), IndexStep(0), KeyStep(ITEM_TYPE)>>, 7)},
     {Leaf(<<KeyStep(EQUIPMENT), IndexStep(0), KeyStep(NAME)>>, 6),
      Leaf(<<KeyStep(EQUIPMENT), IndexStep(1), KeyStep(NAME)>>, 8)}}

\* the dictionaries put in: every choice of fields
Dictionaries == {UNION chosen : chosen \in SUBSET FieldGroups}

InitFlatten ==
    /\ configFile = NoFile
    /\ DEFAULT_CONFIG = InitialDefaultConfig
    /\ Quiet
    /\ single \in {Pending("_flatten_dict", [data |-> d]) : d \in Dictionaries}

\* _flatten_dict(data)
FlattenDict ==
    /\ single.fn = "_flatten_dict"
    /\ ~single.done
    /\ \E r \in {flatten_dict(single.input.data)} :
          single' = [single EXCEPT !.done = TRUE, !.out = [flat |-> r]]
    /\ UNCHANGED <<configFile, DEFAULT_CONFIG, parsers, trace, calls, characters, files, heap>>

\* _unflatten_dict(_flatten_dict(data))
UnflattenDict ==
    /\ single.fn = "_flatten_dict"
    /\ single.done
    /\ \E r \in {unflatten_dict(single.out.flat)} :
          single' = [fn |-> "_unflatten_dict", done |-> TRUE,
                     input |-> [data |-> single.input.data, flat |-> single.out.flat],
                     out |-> [nested |-> r]]
    /\ UNCHANGED <<configFile, DEFAULT_CONFIG, parsers, trace, calls, characters, files, heap>>

NextFlatten == FlattenDict \/ UnflattenDict

SpecFlatten == InitFlatten /\ [][NextFlatten]_vars

\* C26 as stated: _unflatten_dict(_flatten_dict(d)) has the nested structure
\* and the values of d for every dictionary of scalars, nested dictionaries
\* and lists of dictionaries, field names containing "_" included.
C26_UnflattenInvertsFlatten ==
    (single.fn = "_unflatten_dict" /\ single.done) =>
        single.out.nested = single.input.data

\* the part of C26 the code does keep: the round trip of a dictionary none
\* of whose keys contains the separator
C26_PlainKeysRoundTrip ==
    (single.fn = "_unflatten_dict" /\ single.done
        /\ \A leaf \in single.input.data : \A k \in 1..Len(leaf.path) :
              \A i \in 1..Len(leaf.path[k].key) : leaf.path[k].key[i] # "_")
      => single.out.nested = single.input.data

(***************************************************************************)
(* The configuration functions called in any order                          *)
(***************************************************************************)
\* load_config()
LoadConfig ==
    /\ \E r \in {load_config(configFile, DEFAULT_CONFIG)} :
          /\ configFile' = r.file
          /\ single' = [fn |-> "load_config", done |-> TRUE,
                        input |-> [missing |-> ~configFile.exists],
                        out |-> [config |-> r.config]]
    /\ UNCHANGED <<DEFAULT_CONFIG, parsers, trace, calls, characters, files, heap>>

\* get_config_value(section, key, default)
GetConfigValue(section, key, default) ==
    /\ \E r \in {get_config_value(section, key, default, configFile, DEFAULT_CONFIG)} :
          /\ configFile' = r.file
          /\ single' = [fn |-> "get_config_value", done |-> TRUE,
                        input |-> [section |-> section, key |-> key,
                                   missing |-> ~configFile.exists],
                        out |-> [value |-> <<r.value>>]]
    /\ UNCHANGED <<DEFAULT_CONFIG, parsers, trace, calls, characters, files, heap>>

\* save_config(config)
SaveConfig(config) ==
    /\ configFile' = save_config(config)
    /\ single' = NoSingle
    /\ UNCHANGED <<DEFAULT_CONFIG, parsers, trace, calls, characters, files, heap>>

\* set_config_value(section, key, value)
SetConfig(section, key, value) ==
    /\ \E r \in {set_config_value(section, key, value, configFile, DEFAULT_CONFIG)} :
          /\ configFile' = r.file
          /\ DEFAULT_CONFIG' = r.dflt
    /\ single' = NoSingle
    /\ UNCHANGED <<parsers, trace, calls, characters, files, heap>>

\* CONFIG_FILE is deleted, or the tests point CONFIG_FILE at a fresh path
DeleteConfigFile ==
    /\ configFile.exists
    /\ configFile' = NoFile
    /\ single' = NoSingle
    /\ UNCHANGED <<DEFAULT_CONFIG, parsers, trace, calls, characters, files, heap>>

\* settings written: the d66 flag, a new key of an existing section, a key
\* of a section the defaults do not have
ConfigEdits ==
    ConfigWrites
    \cup {<<"general", "verbose", TRUE>>, <<"house", "rules", TRUE>>,
          <<"house", "rules", FALSE>>}

NextConfig ==
    \/ LoadConfig
    \/ \E w \in ConfigEdits : GetConfigValue(w[1], w[2], FALSE)
    \/ \E f \in ConfigFiles : f.exists /\ SaveConfig(f.data)
    \/ \E w \in ConfigEdits : SetConfig(w[1], w[2], w[3])
    \/ DeleteConfigFile

SpecConfig == Init /\ [][NextConfig]_vars

\* C27 as stated: no sequence of load_config, get_config_value,
\* set_config_value and save_config calls changes DEFAULT_CONFIG, its section
\* dictionaries included, and whenever the file is missing load_config
\* returns the original defaults.
C27_DefaultsUnchanged ==
    /\ DEFAULT_CONFIG = InitialDefaultConfig
    /\ (single.fn = "load_config" /\ single.input.missing)
          => single.out.config = InitialDefaultConfig

(***************************************************************************)
(* Skill levels after add_skill                                             *)
(***************************************************************************)
\* levels asked for: below the declared range, inside it, above it
AskedLevels == {0 - 5, 1, 7}

NextSkills ==
    \E c \in CharacterIds, level \in AskedLevels,
       specialty \in {<<>>, <<<<"R", "i", "f", "l", "e">>>>} :
        AddSkill(c, <<"P", "i", "l", "o", "t">>, level, specialty)

SpecSkills == InitCharacters /\ [][NextSkills]_vars

\* C28 as stated: after any add_skill calls that returned without error,
\* every skill of the character has a level within the declared range
\* -3..5, the new skills and the ones whose level was raised alike.
C28_LevelsInRange ==
    \A c \in DOMAIN characters :
        \A i \in 1..Len(characters[c].skills) :
            /\ characters[c].skills[i].level >= 0 - 3
            /\ characters[c].skills[i].level <= 5

(***************************************************************************)
(* The dice one call of the comma-list roll draws                           *)
(***************************************************************************)
\* counts around the ceiling
CeilingCounts == {1, 500, 999, 1000, 1001}

\* one term or two, of d1 or d2, with counts around the ceiling
CeilingInputs ==
    {[expression |-> StdText(a, z, 0), seed |-> s] :
        a \in CeilingCounts, z \in {1, 2}, s \in {<<1>>, <<2>>}}
    \cup {[expression |-> StdText(a, z, 0) \o <<",">> \o StdText(b, z, 0), seed |-> s] :
        a \in CeilingCounts, b \in CeilingCounts, z \in {1, 2}, s \in {<<1>>, <<2>>}}

InitCeiling ==
    /\ configFile = NoFile
    /\ DEFAULT_CONFIG = InitialDefaultConfig
    /\ Quiet
    /\ single \in {Pending("cetools.dice.roll", i) : i \in CeilingInputs}

SpecCeiling == InitCeiling /\ [][NextList]_vars

\* C29 as stated: a successful call of the comma-list roll never draws more
\* than MAX_DICE dice in total; the breakdown of every accepted expression,
\* one of several terms included, has at most MAX_DICE entries.
C29_TotalDiceCeiling ==
    (ListRolled /\ single.out.result.kind = "ok") =>
        /\ Len(single.out.result.breakdown) <= MAX_DICE
        /\ single.out.draws <= MAX_DICE

\* the part of C29 the code does keep: no single term of an accepted
\* expression asks for more than MAX_DICE dice
C29_TermCeiling ==
    (ListRolled /\ single.out.result.kind = "ok") =>
        ~OverCeiling(single.input.expression)

====
